---- MODULE Spec2Model ----
(***************************************************************************)
(* Waveshare 4.26" e-paper driver: the packed 1-bpp framebuffer, the panel *)
(* protocol (init / clear / display / sleep with the busy-line poll) and   *)
(* the three driver classes of the repository:                             *)
(*   "EPD"   - class EPD          (src/unnamed/part_001, lgpio + image)    *)
(*   "lgpio" - class EPD4in26     (src/unnamed/part_000:23-378, lgpio)     *)
(*   "onoff" - class EPD4in26     (src/unnamed/part_000:405-731, onoff)    *)
(*                                                                         *)
(* JavaScript runs the code between two awaits without interruption, so    *)
(* one action is one such run: from a call (or the resumption of an await) *)
(* to the next await (or the return).                                      *)
(***************************************************************************)
EXTENDS Integers, Sequences, FiniteSets, TLC

----------------------------------------------------------------------------
(* Size of the modelled panel.  The real panel is 800 x 480; the width is  *)
(* a whole number of bytes, as the drivers assume.                         *)

WidthBytes == 2

Height == 2

(* Number of pixel-drawing calls (setPixel) explored in one session; the   *)
(* bulk operations (clearBuffer, fillBuffer, loadImage) are not limited.   *)
MaxDraw == 1

(* The longest line or rectangle side drawn, in pixels: longer than the    *)
(* panel is high.                                                          *)
MaxLen == 3

(* Number of cleanup() calls explored in one session. *)
MaxCleanup == 2

(* The widest and highest source image loaded, in pixels: more than twice  *)
(* the width of the panel.                                                 *)
MaxSrc == 40

MaxBusy == 2

WIDTH == 8 * WidthBytes

HEIGHT == Height

(* Buffer.alloc((this.WIDTH / 8) * this.HEIGHT) *)
BufLen == (WIDTH \div 8) * HEIGHT

Variants == {"EPD", "lgpio", "onoff"}

(* The colour arguments tried: 0 (white), 1 (black) and a value that is    *)
(* neither.                                                                *)
Colors == {0, 1, 2}

(* Coordinates tried: every pixel of the panel and one step outside it on  *)
(* each side.                                                              *)
XCoords == (0 - 1) .. WIDTH

YCoords == (0 - 1) .. HEIGHT

(* Line lengths and rectangle sides tried: negative, empty, and up to     *)
(* MaxLen pixels.                                                          *)
Lengths == (0 - 1) .. MaxLen

(* The colours the lines and rectangles are drawn in. *)
Inks == {0, 1}

----------------------------------------------------------------------------
(* Bit operations on non-negative integers, as JavaScript computes them.   *)

RECURSIVE BitAnd(_, _)
BitAnd(a, b) ==
    IF a = 0 \/ b = 0 THEN 0
    ELSE (a % 2) * (b % 2) + 2 * BitAnd(a \div 2, b \div 2)

RECURSIVE BitOr(_, _)
BitOr(a, b) ==
    IF a = 0 THEN b
    ELSE IF b = 0 THEN a
    ELSE (IF a % 2 = 1 \/ b % 2 = 1 THEN 1 ELSE 0)
         + 2 * BitOr(a \div 2, b \div 2)

(* a << k and a >> k for a >= 0 *)
Shl(a, k) == a * (2 ^ k)

Shr(a, k) == a \div (2 ^ k)

(* ~m as it lands in a Uint8 element: the store keeps the low eight bits   *)
(* of the 32-bit complement.                                               *)
Not8(m) == 255 - (m % 256)

(* What a store into a Buffer element keeps of a value. *)
ToUint8(v) == v % 256

(* Buffer.alloc(n, b) *)
Alloc(n, b) == [i \in 1 .. n |-> b]

(* buf[i] with the 0-based index of the code *)
ByteAt(buf, i) == buf[i + 1]

----------------------------------------------------------------------------
VARIABLES
    variant,      \* which of the three driver classes this instance is
    buffer,       \* this.buffer, the framebuffer (a sequence of bytes)
    last,         \* the most recent public call and its arguments
    prev,         \* this.buffer as it was when that call was made
    ndraw,        \* number of pixel-drawing calls made so far
    result,       \* how that call ended: "pending", "ok" or an error name
    log,          \* console messages written by that call
    pc,           \* where the pending async call is suspended ("idle": none)
    cont,         \* what runs when the pending busy-wait returns
    count,        \* the local `count` of the busy-wait (0 when none runs)
    reads,        \* reads of the busy line made by that busy-wait
    highReads,    \* how many of those reads returned the high level (1)
    waitEnd,      \* how the latest busy-wait of that call ended, if any
    trace,        \* line writes, bus writes and busy-waits of that call
    session,      \* "Unpowered" (no init has completed), "Idle" (init has
                  \* completed) or "Sleeping" (sleep was called when Idle)
    callSession,  \* session at the moment of the most recent call
    cleanups,     \* number of cleanup() calls made so far
    released,     \* per handle, how many times cleanup asked to release it
    stale,        \* cleanup has written to a handle it had released before
    load,         \* what the most recent loadImageInBuffer computed
    ops,          \* two calls made without awaiting: where each stands
    wire          \* the writes of those calls, each with the call it is of

vars == <<variant, buffer, last, prev, ndraw, result, log, pc, cont, count,
          reads, highReads, waitEnd, trace, session, callSession, cleanups,
          released, stale, load, ops, wire>>

(* The record of a call.  Every call has all fields, so that records of    *)
(* different calls compare.                                                *)
Call(op, x, y, color, img, hasImg, fast) ==
    [op |-> op, x |-> x, y |-> y, w |-> 0, h |-> 0, color |-> color,
     img |-> img, hasImg |-> hasImg, fast |-> fast]

(* The record of a call that takes a width and a height. *)
SizedCall(op, x, y, w, h, color) ==
    [Call(op, x, y, color, <<>>, FALSE, FALSE) EXCEPT !.w = w, !.h = h]

NoCall == Call("new", 0, 0, 0, <<>>, FALSE, FALSE)

----------------------------------------------------------------------------
(* The framebuffer operations.                                             *)

(* setPixel with the bit order reversed: bit (x & 7) instead of            *)
(* 7 - (x & 7).                                                            *)
setPixel_lsbFirst(buf, x, y, color) ==
    IF x < 0 \/ x >= WIDTH \/ y < 0 \/ y >= HEIGHT THEN buf
    ELSE LET byteIndex == Shr(x + y * WIDTH, 3)
             bitIndex == BitAnd(x, 7)
         IN  IF color = 0
             THEN [buf EXCEPT ![byteIndex + 1] =
                       ToUint8(BitOr(@, Shl(1, bitIndex)))]
             ELSE [buf EXCEPT ![byteIndex + 1] =
                       ToUint8(BitAnd(@, Not8(Shl(1, bitIndex))))]

(* setPixel without the check of the right and bottom edges. *)
setPixel_noUpperCheck(buf, x, y, color) ==
    IF x < 0 \/ y < 0 THEN buf
    ELSE LET byteIndex == Shr(x + y * WIDTH, 3)
             bitIndex == 7 - BitAnd(x, 7)
         IN  IF byteIndex >= Len(buf) THEN buf
             ELSE IF color = 0
             THEN [buf EXCEPT ![byteIndex + 1] =
                       ToUint8(BitOr(@, Shl(1, bitIndex)))]
             ELSE [buf EXCEPT ![byteIndex + 1] =
                       ToUint8(BitAnd(@, Not8(Shl(1, bitIndex))))]

(* EPD.setPixel: the buffer after setPixel(x, y, color) on buf. *)
setPixel(buf, x, y, color) ==
    IF x < 0 \/ x >= WIDTH \/ y < 0 \/ y >= HEIGHT THEN buf
    ELSE LET byteIndex == Shr(x + y * WIDTH, 3)
             bitIndex == 7 - BitAnd(x, 7)
         IN  IF color = 0
             THEN [buf EXCEPT ![byteIndex + 1] =
                       ToUint8(BitOr(@, Shl(1, bitIndex)))]
             ELSE [buf EXCEPT ![byteIndex + 1] =
                       ToUint8(BitAnd(@, Not8(Shl(1, bitIndex))))]

(* The loop of drawHLine from index i: setPixel(x + i, y, color) for every *)
(* i < width.                                                              *)
RECURSIVE HLineLoop(_, _, _, _, _, _)
HLineLoop(buf, x, y, width, color, i) ==
    IF i < width
    THEN HLineLoop(setPixel(buf, x + i, y, color), x, y, width, color, i + 1)
    ELSE buf

(* drawHLine whose loop runs to i <= width. *)
drawHLine_inclusive(buf, x, y, width, color) ==
    HLineLoop(buf, x, y, width + 1, color, 0)

(* EPD.drawHLine: the buffer after drawHLine(x, y, width, color). *)
drawHLine(buf, x, y, width, color) == HLineLoop(buf, x, y, width, color, 0)

(* The loop of drawVLine from index i: setPixel(x, y + i, color) for every *)
(* i < height.                                                             *)
RECURSIVE VLineLoop(_, _, _, _, _, _)
VLineLoop(buf, x, y, height, color, i) ==
    IF i < height
    THEN VLineLoop(setPixel(buf, x, y + i, color), x, y, height, color, i + 1)
    ELSE buf

(* EPD.drawVLine: the buffer after drawVLine(x, y, height, color). *)
drawVLine(buf, x, y, height, color) == VLineLoop(buf, x, y, height, color, 0)

(* EPD.drawRect: two horizontal and two vertical lines, in the order of    *)
(* the code.                                                               *)
drawRect(buf, x, y, width, height, color) ==
    LET top == drawHLine(buf, x, y, width, color)
        bottom == drawHLine(top, x, y + height - 1, width, color)
        left == drawVLine(bottom, x, y, height, color)
    IN  drawVLine(left, x + width - 1, y, height, color)

(* The loop of fillRect from row i: drawHLine(x, y + i, width, color) for  *)
(* every i < height.                                                       *)
RECURSIVE RectLoop(_, _, _, _, _, _, _)
RectLoop(buf, x, y, width, height, color, i) ==
    IF i < height
    THEN RectLoop(drawHLine(buf, x, y + i, width, color),
                  x, y, width, height, color, i + 1)
    ELSE buf

(* fillRect that leaves out the last row. *)
fillRect_shortRows(buf, x, y, width, height, color) ==
    RectLoop(buf, x, y, width, height - 1, color, 0)

(* EPD.fillRect: the buffer after fillRect(x, y, width, height, color). *)
fillRect(buf, x, y, width, height, color) ==
    RectLoop(buf, x, y, width, height, color, 0)

(* this.buffer.fill(0xff) *)
clearBuffer(buf) == [i \in 1 .. Len(buf) |-> 255]

(* fillBuffer that takes only the colour 1 as black. *)
fillBuffer_onlyOne(buf, color) ==
    [i \in 1 .. Len(buf) |-> IF color = 1 THEN 0 ELSE 255]

(* this.buffer.fill(color === 0 ? 0xff : 0x00) *)
fillBuffer(buf, color) ==
    [i \in 1 .. Len(buf) |-> IF color = 0 THEN 255 ELSE 0]

(* source.copy(target): the leading bytes of target are overwritten with   *)
(* those of source, as many as both hold.                                  *)
BufferCopy(source, target) ==
    [i \in 1 .. Len(target) |->
        IF i <= Len(source) THEN source[i] ELSE target[i]]

(* loadImage that copies without comparing the lengths. *)
loadImage_noLengthCheck(buf, imageBuffer) == BufferCopy(imageBuffer, buf)

(* EPD4in26.loadImage: the framebuffer after loadImage(imageBuffer). *)
loadImage(buf, imageBuffer) ==
    IF Len(imageBuffer) = Len(buf)
    THEN BufferCopy(imageBuffer, buf)
    ELSE buf

(* What loadImage writes to the console. *)
loadImageLog(buf, imageBuffer) ==
    IF Len(imageBuffer) = Len(buf)
    THEN <<>>
    ELSE <<"Image buffer size mismatch">>

(* Caller-supplied buffers tried: two of the right length with mixed bits, *)
(* one byte short, one byte long, and the empty buffer.                    *)
Ramp(n) == [i \in 1 .. n |-> (37 * i + 90) % 256]

Images ==
    {Alloc(BufLen, 165), Ramp(BufLen), Ramp(BufLen - 1), Ramp(BufLen + 1),
     <<>>}

----------------------------------------------------------------------------
(* Events of the trace: a write to a control line, a write to the bus, and *)
(* the return of a busy-wait.  All three have the same shape.              *)

Gpio(line, v) == <<"gpio", line, <<v>>>>

Spi(bytes) == <<"spi", "bus", bytes>>

BusyWait == <<"wait", "busy", <<>>>>

(* A fourth event: the release of a handle (gpiochipClose, spiClose,       *)
(* Gpio.unexport).                                                         *)
Release(handle) == <<"close", handle, <<>>>>

(* count > 1000 ends the poll loop *)
BusyCap == 1000

(* const chunkSize = 48000 *)
chunkSize == 48000

(* The level of the busy line that the class takes as "busy":              *)
(* gpioRead(...) === true for the lgpio classes, readSync() === 0 for the  *)
(* onoff class.                                                            *)
IsBusy(v, level) == IF v = "onoff" THEN level = 0 ELSE level = 1

(* sendCommand that writes the byte before it drives the line. *)
sendCommand_busFirst(v, command) ==
    IF v = "onoff"
    THEN <<Gpio("cs", 0), Spi(<<ToUint8(command)>>), Gpio("dc", 0),
           Gpio("cs", 1)>>
    ELSE <<Spi(<<ToUint8(command)>>), Gpio("dc", 0)>>

(* sendCommand(command) *)
sendCommand(v, command) ==
    IF v = "onoff"
    THEN <<Gpio("dc", 0), Gpio("cs", 0), Spi(<<ToUint8(command)>>),
           Gpio("cs", 1)>>
    ELSE <<Gpio("dc", 0), Spi(<<ToUint8(command)>>)>>

(* sendData(data) for a number *)
sendData(v, data) ==
    IF v = "onoff"
    THEN <<Gpio("dc", 1), Gpio("cs", 0), Spi(<<ToUint8(data)>>),
           Gpio("cs", 1)>>
    ELSE <<Gpio("dc", 1), Spi(<<ToUint8(data)>>)>>

(* The chunk loop of the lgpio EPD4in26.sendData, from offset i. *)
RECURSIVE Chunks(_, _)
Chunks(txBuffer, i) ==
    IF i >= Len(txBuffer) THEN <<>>
    ELSE LET end == IF i + chunkSize < Len(txBuffer)
                    THEN i + chunkSize ELSE Len(txBuffer)
         IN  <<Spi(SubSeq(txBuffer, i + 1, end))>>
             \o Chunks(txBuffer, i + chunkSize)

(* sendData(data) for a Buffer *)
sendDataBuffer(v, data) ==
    IF v = "onoff"
    THEN <<Gpio("dc", 1), Gpio("cs", 0), Spi(data), Gpio("cs", 1)>>
    ELSE IF v = "lgpio"
    THEN <<Gpio("dc", 1), Spi(data)>> \o Chunks(data, 0)
    ELSE <<Gpio("dc", 1), Spi(data)>>

(* sendSPIBytes(data) of the lgpio EPD4in26 *)
sendSPIBytes(data) == <<Gpio("dc", 1), Spi(data)>>

(* A register program is a sequence of items: a command byte or a data    *)
(* byte.  Emit gives the events that sending the items produces.           *)
Cmd(b) == <<"c", b>>

Dat(b) == <<"d", b>>

RECURSIVE Emit(_, _)
Emit(v, items) ==
    IF items = <<>> THEN <<>>
    ELSE (IF Head(items)[1] = "c"
          THEN sendCommand(v, Head(items)[2])
          ELSE sendData(v, Head(items)[2]))
         \o Emit(v, Tail(items))

(* setWindow that sends the high byte of each value first. *)
setWindow_highFirst(xStart, yStart, xEnd, yEnd) ==
    <<Cmd(68),
      Dat(BitAnd(Shr(xStart, 8), 3)), Dat(BitAnd(xStart, 255)),
      Dat(BitAnd(Shr(xEnd, 8), 3)), Dat(BitAnd(xEnd, 255)),
      Cmd(69),
      Dat(BitAnd(Shr(yStart, 8), 255)), Dat(BitAnd(yStart, 255)),
      Dat(BitAnd(Shr(yEnd, 8), 255)), Dat(BitAnd(yEnd, 255))>>

(* setWindow(xStart, yStart, xEnd, yEnd) *)
setWindow(xStart, yStart, xEnd, yEnd) ==
    <<Cmd(68),
      Dat(BitAnd(xStart, 255)), Dat(BitAnd(Shr(xStart, 8), 3)),
      Dat(BitAnd(xEnd, 255)), Dat(BitAnd(Shr(xEnd, 8), 3)),
      Cmd(69),
      Dat(BitAnd(yStart, 255)), Dat(BitAnd(Shr(yStart, 8), 255)),
      Dat(BitAnd(yEnd, 255)), Dat(BitAnd(Shr(yEnd, 8), 255))>>

(* setCursor(x, y) *)
setCursor(x, y) ==
    <<Cmd(78), Dat(BitAnd(x, 255)), Dat(BitAnd(Shr(x, 8), 3)),
      Cmd(79), Dat(BitAnd(y, 255)), Dat(BitAnd(Shr(y, 8), 255))>>

(* init of EPD and of the lgpio EPD4in26, from the command after the       *)
(* second busy-wait to the last byte of setCursor.                         *)
RegisterProgram ==
    <<Cmd(24), Dat(128),
      Cmd(12), Dat(174), Dat(199), Dat(195), Dat(192), Dat(128),
      Cmd(1), Dat(BitAnd(HEIGHT - 1, 255)), Dat(Shr(HEIGHT - 1, 8)), Dat(2),
      Cmd(60), Dat(1),
      Cmd(17), Dat(1)>>
    \o setWindow(0, HEIGHT - 1, WIDTH - 1, 0)
    \o setCursor(0, 0)

(* init of the onoff EPD4in26: from the command after the second busy-wait *)
(* to the activate command, and from there to the last counter byte.       *)
RegisterProgramOnoff ==
    <<Cmd(1), Dat(223), Dat(1), Dat(0),
      Cmd(17), Dat(3),
      Cmd(68), Dat(0), Dat(49),
      Cmd(69), Dat(223), Dat(1), Dat(0), Dat(0),
      Cmd(60), Dat(1),
      Cmd(24), Dat(128),
      Cmd(34), Dat(177),
      Cmd(32)>>

CursorProgramOnoff ==
    <<Cmd(78), Dat(0),
      Cmd(79), Dat(223), Dat(1)>>

(* turnOnDisplay that refreshes in the full mode whatever it is asked. *)
turnOnDisplay_alwaysFull(v, fast) == <<Cmd(34), Dat(247), Cmd(32)>>

(* turnOnDisplay(fast), up to its busy-wait.  Only EPD has the parameter;  *)
(* the EPD4in26 classes always send 0xF7.                                  *)
turnOnDisplay(v, fast) ==
    <<Cmd(34), Dat(IF v = "EPD" /\ fast THEN 255 ELSE 247), Cmd(32)>>

----------------------------------------------------------------------------
(* The state after construction.  Buffer.alloc(n) gives n zero bytes.  The *)
(* onoff constructor reports the lines it claims on the console.           *)

ConstructorLog(v) ==
    IF v = "onoff"
    THEN <<"Initializing GPIO pins...",
           "Power pin initialized and set to HIGH", "RST pin initialized",
           "DC pin initialized", "CS pin initialized",
           "Busy pin initialized">>
    ELSE <<>>

(* this.buffer = Buffer.alloc((this.WIDTH / 8) * this.HEIGHT) *)
NewBuffer == Alloc(BufLen, 0)

(* The handles cleanup releases and how often it has asked for that: none *)
(* yet.  The lgpio classes hold a GPIO chip handle and an SPI handle; the  *)
(* onoff class holds one Gpio object per line and an SpiDevice.            *)
HandleNames == {"chip", "spi", "rst", "dc", "cs", "busy", "power"}

NoRelease == [n \in HandleNames |-> 0]

(* No loadImageInBuffer has decoded an image. *)
NoLoad ==
    [bitmapWidth |-> 0, bitmapHeight |-> 0, scaleNum |-> 0, scaleDen |-> 1,
     targetWidth |-> 0, targetHeight |-> 0, xOffset |-> 0, yOffset |-> 0,
     grid |-> <<>>, out |-> <<>>]

(* The two calls that may overlap, and a call that has not been made. *)
Slots == {1, 2}

NoOp == [call |-> NoCall, sent |-> <<>>, seg |-> 0, at |-> "none",
         count |-> 0]

Init ==
    /\ variant \in Variants
    /\ buffer = NewBuffer
    /\ last = NoCall
    /\ prev = NewBuffer
    /\ ndraw = 0
    /\ result = "ok"
    /\ log = ConstructorLog(variant)
    /\ pc = "idle"
    /\ cont = "none"
    /\ count = 0
    /\ reads = 0
    /\ highReads = 0
    /\ waitEnd = "none"
    /\ trace = <<>>
    /\ session = "Unpowered"
    /\ callSession = "Unpowered"
    /\ cleanups = 0
    /\ released = NoRelease
    /\ stale = FALSE
    /\ load = NoLoad
    /\ ops = [i \in Slots |-> NoOp]
    /\ wire = <<>>

----------------------------------------------------------------------------
(* Calls on the framebuffer.  They are synchronous: each is one action.    *)

(* What every synchronous framebuffer call does to the bookkeeping. *)
FrameCall(call, lg) ==
    /\ pc = "idle"
    /\ last' = call
    /\ prev' = buffer
    /\ result' = "ok"
    /\ log' = lg
    /\ trace' = <<>>
    /\ callSession' = session
    /\ UNCHANGED <<cleanups, released, stale, load, ops, wire>>
    /\ UNCHANGED <<variant, pc, cont, count, reads, highReads, waitEnd,
                   session>>

CallSetPixel(x, y, color) ==
    /\ ndraw < MaxDraw
    /\ ndraw' = ndraw + 1
    /\ buffer' = setPixel(buffer, x, y, color)
    /\ FrameCall(Call("setPixel", x, y, color, <<>>, FALSE, FALSE), <<>>)

CallClearBuffer ==
    /\ buffer' = clearBuffer(buffer)
    /\ FrameCall(Call("clearBuffer", 0, 0, 0, <<>>, FALSE, FALSE), <<>>)
    /\ UNCHANGED ndraw

CallFillBuffer(color) ==
    /\ buffer' = fillBuffer(buffer, color)
    /\ FrameCall(Call("fillBuffer", 0, 0, color, <<>>, FALSE, FALSE), <<>>)
    /\ UNCHANGED ndraw

(* loadImage exists in the two EPD4in26 classes only. *)
CallLoadImage(imageBuffer) ==
    /\ variant \in {"lgpio", "onoff"}
    /\ buffer' = loadImage(buffer, imageBuffer)
    /\ FrameCall(Call("loadImage", 0, 0, 0, imageBuffer, TRUE, FALSE),
                 loadImageLog(buffer, imageBuffer))
    /\ UNCHANGED ndraw

(* The lines and rectangles are explored as the first call on a           *)
(* framebuffer: the new one, or one that earlier calls have left.          *)
Blank == last.op \in {"new", "earlier"}

CallDrawHLine(x, y, width, color) ==
    /\ Blank
    /\ buffer' = drawHLine(buffer, x, y, width, color)
    /\ FrameCall(SizedCall("drawHLine", x, y, width, 0, color), <<>>)
    /\ UNCHANGED ndraw

CallDrawVLine(x, y, height, color) ==
    /\ Blank
    /\ buffer' = drawVLine(buffer, x, y, height, color)
    /\ FrameCall(SizedCall("drawVLine", x, y, 0, height, color), <<>>)
    /\ UNCHANGED ndraw

CallDrawRect(x, y, width, height, color) ==
    /\ Blank
    /\ buffer' = drawRect(buffer, x, y, width, height, color)
    /\ FrameCall(SizedCall("drawRect", x, y, width, height, color), <<>>)
    /\ UNCHANGED ndraw

CallFillRect(x, y, width, height, color) ==
    /\ Blank
    /\ buffer' = fillRect(buffer, x, y, width, height, color)
    /\ FrameCall(SizedCall("fillRect", x, y, width, height, color), <<>>)
    /\ UNCHANGED ndraw

----------------------------------------------------------------------------
(* The busy-wait: epaperReady of EPD and of the lgpio EPD4in26, readBusy   *)
(* of the onoff EPD4in26.                                                  *)

(* The poll loop ends (the line read ready, or the cap was hit).  EPD      *)
(* returns at once; the EPD4in26 classes then await delay(20).  tr and lg  *)
(* are the trace and the console so far.                                   *)
LoopExit(how, tr, lg) ==
    /\ waitEnd' = how
    /\ IF variant = "EPD"
       THEN /\ pc' = "ret"
            /\ trace' = Append(tr, BusyWait)
            /\ log' = lg
       ELSE /\ pc' = "tail"
            /\ trace' = tr
            /\ log' = IF variant = "onoff" /\ how = "cap"
                      THEN Append(lg, "Busy timeout!")
                      ELSE lg

(* A busy-wait whose cap test is off by one: count > 1001. *)
AfterDelay_lateCap(level) ==
    /\ pc = "poll"
    /\ count' = count + 1
    /\ IF count + 1 > BusyCap + 1
       THEN /\ reads' = reads
            /\ highReads' = highReads
            /\ LoopExit("cap", trace, log)
       ELSE /\ reads' = reads + 1
            /\ highReads' = highReads + level
            /\ IF IsBusy(variant, level)
               THEN /\ pc' = "poll"
                    /\ UNCHANGED <<waitEnd, trace, log>>
               ELSE LoopExit("ready", trace, log)
    /\ UNCHANGED <<cleanups, released, stale, load, ops, wire>>
    /\ UNCHANGED <<variant, buffer, last, prev, ndraw, result, cont,
                   session, callSession>>

(* The busy-wait begins: count = 0 and the loop condition reads the line   *)
(* for the first time, in the same run as the code before it.  k is what   *)
(* the caller does when the wait returns.                                  *)
EnterWait(level, k, tr, lg) ==
    LET lg0 == IF variant = "onoff" THEN Append(lg, "e-Paper busy") ELSE lg
    IN  /\ cont' = k
        /\ count' = 0
        /\ reads' = 1
        /\ highReads' = level
        /\ IF IsBusy(variant, level)
           THEN /\ pc' = "poll"
                /\ waitEnd' = "none"
                /\ trace' = tr
                /\ log' = lg0
           ELSE LoopExit("ready", tr, lg0)

(* The delay inside the loop is over: count++, the cap is tested, and the  *)
(* loop condition reads the line again unless the cap ended the loop.      *)
AfterDelay(level) ==
    /\ pc = "poll"
    /\ count' = count + 1
    /\ IF count + 1 > BusyCap
       THEN /\ reads' = reads
            /\ highReads' = highReads
            /\ LoopExit("cap", trace, log)
       ELSE /\ reads' = reads + 1
            /\ highReads' = highReads + level
            /\ IF IsBusy(variant, level)
               THEN /\ pc' = "poll"
                    /\ UNCHANGED <<waitEnd, trace, log>>
               ELSE LoopExit("ready", trace, log)
    /\ UNCHANGED <<cleanups, released, stale, load, ops, wire>>
    /\ UNCHANGED <<variant, buffer, last, prev, ndraw, result, cont,
                   session, callSession>>

(* The delay(20) after the loop (EPD4in26 classes) is over: the wait       *)
(* returns.                                                                *)
WaitTail ==
    /\ pc = "tail"
    /\ pc' = "ret"
    /\ trace' = Append(trace, BusyWait)
    /\ log' = IF variant = "onoff"
              THEN Append(log, "e-Paper busy release")
              ELSE log
    /\ UNCHANGED <<cleanups, released, stale, load, ops, wire>>
    /\ UNCHANGED <<variant, buffer, last, prev, ndraw, result, cont, count,
                   reads, highReads, waitEnd, session, callSession>>

----------------------------------------------------------------------------
(* The asynchronous calls.  The caller awaits each call before it makes    *)
(* the next one (pc = "idle").                                             *)

(* What every asynchronous call does to the bookkeeping when it starts. *)
AsyncCall(call) ==
    /\ pc = "idle"
    /\ last' = call
    /\ prev' = buffer
    /\ result' = "pending"
    /\ callSession' = session
    /\ UNCHANGED <<cleanups, released, stale, load, ops, wire>>
    /\ UNCHANGED <<variant, ndraw>>

Levels == {0, 1}

(* init(): reset() writes the reset line high and awaits delay(20). *)
CallInit ==
    /\ AsyncCall(Call("init", 0, 0, 0, <<>>, FALSE, FALSE))
    /\ pc' = "reset1"
    /\ trace' = <<Gpio("rst", 1)>>
    /\ log' = <<>>
    /\ waitEnd' = "none"
    /\ UNCHANGED <<buffer, cont, count, reads, highReads, session>>

(* reset(): the line goes low, await delay(2). *)
ResetLow ==
    /\ pc = "reset1"
    /\ pc' = "reset2"
    /\ trace' = Append(trace, Gpio("rst", 0))
    /\ UNCHANGED <<cleanups, released, stale, load, ops, wire>>
    /\ UNCHANGED <<variant, buffer, last, prev, ndraw, result, log, cont,
                   count, reads, highReads, waitEnd, session, callSession>>

(* reset(): the line goes high again, await delay(20). *)
ResetHigh ==
    /\ pc = "reset2"
    /\ pc' = "reset3"
    /\ trace' = Append(trace, Gpio("rst", 1))
    /\ UNCHANGED <<cleanups, released, stale, load, ops, wire>>
    /\ UNCHANGED <<variant, buffer, last, prev, ndraw, result, log, cont,
                   count, reads, highReads, waitEnd, session, callSession>>

(* reset() returns and init enters its first busy-wait. *)
ResetDone(level) ==
    /\ pc = "reset3"
    /\ EnterWait(level, "init_swreset", trace, log)
    /\ UNCHANGED <<cleanups, released, stale, load, ops, wire>>
    /\ UNCHANGED <<variant, buffer, last, prev, ndraw, result, session,
                   callSession>>

(* init sending a second command together with the software reset,        *)
(* before the wait that follows it.                                        *)
InitSwReset_early(level) ==
    /\ pc = "ret" /\ cont = "init_swreset"
    /\ EnterWait(level, "init_program",
                 trace \o sendCommand(variant, 18)
                       \o sendCommand(variant, 24), log)
    /\ UNCHANGED <<cleanups, released, stale, load, ops, wire>>
    /\ UNCHANGED <<variant, buffer, last, prev, ndraw, result, session,
                   callSession>>

(* init after its first busy-wait: command 0x12, second busy-wait. *)
InitSwReset(level) ==
    /\ pc = "ret" /\ cont = "init_swreset"
    /\ EnterWait(level, "init_program",
                 trace \o sendCommand(variant, 18), log)
    /\ UNCHANGED <<cleanups, released, stale, load, ops, wire>>
    /\ UNCHANGED <<variant, buffer, last, prev, ndraw, result, session,
                   callSession>>

(* init after its second busy-wait: the register program, then the next   *)
(* busy-wait.                                                              *)
InitProgram(level) ==
    /\ pc = "ret" /\ cont = "init_program"
    /\ IF variant = "onoff"
       THEN EnterWait(level, "init_cursor",
                      trace \o Emit(variant, RegisterProgramOnoff), log)
       ELSE EnterWait(level, "init_done",
                      trace \o Emit(variant, RegisterProgram), log)
    /\ UNCHANGED <<cleanups, released, stale, load, ops, wire>>
    /\ UNCHANGED <<variant, buffer, last, prev, ndraw, result, session,
                   callSession>>

(* onoff init after its third busy-wait: the address counters, then the   *)
(* last busy-wait.                                                         *)
InitCursor(level) ==
    /\ pc = "ret" /\ cont = "init_cursor"
    /\ EnterWait(level, "init_done",
                 trace \o Emit(variant, CursorProgramOnoff), log)
    /\ UNCHANGED <<cleanups, released, stale, load, ops, wire>>
    /\ UNCHANGED <<variant, buffer, last, prev, ndraw, result, session,
                   callSession>>

(* init returns. *)
InitDone ==
    /\ pc = "ret" /\ cont = "init_done"
    /\ pc' = "idle"
    /\ cont' = "none"
    /\ result' = "ok"
    /\ session' = "Idle"
    /\ log' = IF variant = "onoff" THEN Append(log, "EPD initialized")
              ELSE log
    /\ count' = 0
    /\ reads' = 0
    /\ highReads' = 0
    /\ UNCHANGED <<cleanups, released, stale, load, ops, wire>>
    /\ UNCHANGED <<variant, buffer, last, prev, ndraw, waitEnd, trace,
                   callSession>>

(* The bytes clear() streams and the framebuffer it leaves.  EPD and the   *)
(* lgpio class fill the framebuffer and send it (the lgpio class to both   *)
(* RAM banks); the onoff class sends 0xFF byte by byte and leaves the      *)
(* framebuffer alone.                                                      *)
clearBufferAfter(v, buf) == IF v = "onoff" THEN buf ELSE clearBuffer(buf)

RECURSIVE Repeat(_, _)
Repeat(n, s) == IF n <= 0 THEN <<>> ELSE s \o Repeat(n - 1, s)

clearTransfer(v, buf) ==
    IF v = "EPD"
    THEN sendCommand(v, 36) \o sendDataBuffer(v, clearBuffer(buf))
    ELSE IF v = "lgpio"
    THEN sendCommand(v, 36) \o sendSPIBytes(clearBuffer(buf))
         \o sendCommand(v, 38) \o sendSPIBytes(clearBuffer(buf))
    ELSE sendCommand(v, 36)
         \o Repeat((WIDTH \div 8) * HEIGHT, sendData(v, 255))

(* clear(fast): runs to the first read of the busy line in turnOnDisplay.  *)
CallClear(fast, level) ==
    /\ AsyncCall(Call("clear", 0, 0, 0, <<>>, FALSE, fast))
    /\ buffer' = clearBufferAfter(variant, buffer)
    /\ EnterWait(level, "refresh_done",
                 clearTransfer(variant, buffer)
                     \o Emit(variant, turnOnDisplay(variant, fast)),
                 IF variant = "EPD" THEN <<"SPI Write Clear 1">> ELSE <<>>)
    /\ UNCHANGED session

(* display that streams the bytes before it sends the command 0x24. *)
displayTransfer_dataFirst(v, buf) ==
    (IF v = "lgpio" THEN sendSPIBytes(buf) ELSE sendDataBuffer(v, buf))
    \o sendCommand(v, 36)

(* The bytes display(buf) streams: buf = imageBuffer || this.buffer. *)
displayTransfer(v, buf) ==
    sendCommand(v, 36)
    \o (IF v = "lgpio" THEN sendSPIBytes(buf) ELSE sendDataBuffer(v, buf))

(* display that keeps the buffer it was given as the framebuffer. *)
CallDisplay_keepsImage(hasImg, imageBuffer, level) ==
    /\ AsyncCall(Call("display", 0, 0, 0, imageBuffer, hasImg, FALSE))
    /\ EnterWait(level, "refresh_done",
                 displayTransfer(variant,
                                 IF hasImg THEN imageBuffer ELSE buffer)
                     \o Emit(variant, turnOnDisplay(variant, TRUE)),
                 <<>>)
    /\ buffer' = IF hasImg THEN imageBuffer ELSE buffer
    /\ UNCHANGED session

(* display(imageBuffer?): runs to the first read of the busy line. *)
CallDisplay(hasImg, imageBuffer, level) ==
    /\ AsyncCall(Call("display", 0, 0, 0, imageBuffer, hasImg, FALSE))
    /\ EnterWait(level, "refresh_done",
                 displayTransfer(variant,
                                 IF hasImg THEN imageBuffer ELSE buffer)
                     \o Emit(variant, turnOnDisplay(variant, TRUE)),
                 <<>>)
    /\ UNCHANGED <<buffer, session>>

(* A refresh that waits for the busy line once more instead of returning. *)
RefreshDone_restarts ==
    /\ pc = "ret" /\ cont = "refresh_done"
    /\ pc' = "poll"
    /\ count' = 0
    /\ UNCHANGED <<cleanups, released, stale, load, ops, wire>>
    /\ UNCHANGED <<variant, buffer, last, prev, ndraw, result, log, cont,
                   reads, highReads, waitEnd, trace, session, callSession>>

(* turnOnDisplay returns, and with it clear or display. *)
RefreshDone ==
    /\ pc = "ret" /\ cont = "refresh_done"
    /\ pc' = "idle"
    /\ cont' = "none"
    /\ result' = "ok"
    /\ count' = 0
    /\ reads' = 0
    /\ highReads' = 0
    /\ UNCHANGED <<cleanups, released, stale, load, ops, wire>>
    /\ UNCHANGED <<variant, buffer, last, prev, ndraw, log, waitEnd, trace,
                   session, callSession>>

(* sleep(): command 0x10, data 0x01, await delay(100). *)
CallSleep ==
    /\ AsyncCall(Call("sleep", 0, 0, 0, <<>>, FALSE, FALSE))
    /\ pc' = "sleepDelay"
    /\ trace' = sendCommand(variant, 16) \o sendData(variant, 1)
    /\ log' = <<>>
    /\ session' = IF session = "Idle" THEN "Sleeping" ELSE session
    /\ waitEnd' = "none"
    /\ UNCHANGED <<buffer, cont, count, reads, highReads>>

(* sleep returns. *)
SleepDone ==
    /\ pc = "sleepDelay"
    /\ pc' = "idle"
    /\ result' = "ok"
    /\ UNCHANGED <<cleanups, released, stale, load, ops, wire>>
    /\ UNCHANGED <<variant, buffer, last, prev, ndraw, log, cont, count,
                   reads, highReads, waitEnd, trace, session, callSession>>

----------------------------------------------------------------------------
(* The send methods called on their own.  They are synchronous: the call   *)
(* has returned when the step is over.                                     *)
SendCall(call, events) ==
    /\ pc = "idle"
    /\ last' = call
    /\ prev' = buffer
    /\ trace' = events
    /\ log' = <<>>
    /\ result' = "ok"
    /\ callSession' = session
    /\ UNCHANGED <<cleanups, released, stale, load, ops, wire>>
    /\ UNCHANGED <<variant, buffer, ndraw, pc, cont, count, reads,
                   highReads, waitEnd, session>>

CallSendCommand(command) ==
    SendCall(Call("sendCommand", command, 0, 0, <<>>, FALSE, FALSE),
             sendCommand(variant, command))

CallSendData(data) ==
    SendCall(Call("sendData", data, 0, 0, <<>>, FALSE, FALSE),
             sendData(variant, data))

CallSendDataBuffer(data) ==
    SendCall(Call("sendData", 0, 0, 0, data, TRUE, FALSE),
             sendDataBuffer(variant, data))

CallSendSPIBytes(data) ==
    /\ variant = "lgpio"
    /\ SendCall(Call("sendSPIBytes", 0, 0, 0, data, TRUE, FALSE),
                sendSPIBytes(data))

(* The address part of init for a panel of width x height: setWindow(0,   *)
(* HEIGHT - 1, WIDTH - 1, 0) and setCursor(0, 0).                          *)
InitAddress(width, height) ==
    /\ variant = "EPD"
    /\ SendCall(SizedCall("initAddress", 0, 0, width, height, 0),
                Emit(variant, setWindow(0, height - 1, width - 1, 0)
                                  \o setCursor(0, 0)))

----------------------------------------------------------------------------
(* A write that fails.  lgpio and onoff report a failed write by throwing; *)
(* no method of the classes catches, so the exception leaves the           *)
(* asynchronous method at the write and its promise rejects.  events are   *)
(* the writes of the run, the n-th of them is the one that throws; tr and  *)
(* lg are the trace and the console so far.                                *)

(* A failed write that is made once more before the exception leaves. *)
Thrown_retried(tr, events, n, lg) ==
    /\ n \in 1 .. Len(events)
    /\ trace' = tr \o SubSeq(events, 1, n) \o <<events[n]>>
    /\ log' = lg
    /\ pc' = "idle"
    /\ cont' = "none"
    /\ result' = "WriteError"
    /\ count' = 0
    /\ reads' = 0
    /\ highReads' = 0
    /\ waitEnd' = "none"

Thrown(tr, events, n, lg) ==
    /\ n \in 1 .. Len(events)
    /\ trace' = tr \o SubSeq(events, 1, n)
    /\ log' = lg
    /\ pc' = "idle"
    /\ cont' = "none"
    /\ result' = "WriteError"
    /\ count' = 0
    /\ reads' = 0
    /\ highReads' = 0
    /\ waitEnd' = "none"

(* What an asynchronous call that is left by an exception does to the     *)
(* bookkeeping when it starts.                                             *)
RejectedCall(call) ==
    /\ pc = "idle"
    /\ last' = call
    /\ prev' = buffer
    /\ callSession' = session
    /\ UNCHANGED <<cleanups, released, stale, load, ops, wire>>
    /\ UNCHANGED <<variant, ndraw>>

(* init(): the first write of reset() throws. *)
CallInitThrows ==
    /\ RejectedCall(Call("init", 0, 0, 0, <<>>, FALSE, FALSE))
    /\ Thrown(<<>>, <<Gpio("rst", 1)>>, 1, <<>>)
    /\ UNCHANGED <<buffer, session>>

(* reset(): the second or the third write throws. *)
ResetThrows ==
    /\ pc \in {"reset1", "reset2"}
    /\ Thrown(trace, <<Gpio("rst", IF pc = "reset1" THEN 0 ELSE 1)>>, 1, log)
    /\ UNCHANGED <<cleanups, released, stale, load, ops, wire>>
    /\ UNCHANGED <<variant, buffer, last, prev, ndraw, session, callSession>>

(* init after a busy-wait: a write of the commands that follow throws. *)
InitThrows ==
    LET events == IF cont = "init_swreset" THEN sendCommand(variant, 18)
                  ELSE IF cont = "init_cursor"
                  THEN Emit(variant, CursorProgramOnoff)
                  ELSE IF variant = "onoff"
                  THEN Emit(variant, RegisterProgramOnoff)
                  ELSE Emit(variant, RegisterProgram)
    IN  /\ pc = "ret"
        /\ cont \in {"init_swreset", "init_program", "init_cursor"}
        /\ \E n \in 1 .. Len(events) : Thrown(trace, events, n, log)
        /\ UNCHANGED <<cleanups, released, stale, load, ops, wire>>
        /\ UNCHANGED <<variant, buffer, last, prev, ndraw, session,
                       callSession>>

(* clear(fast): the framebuffer is filled, then a write throws.  EPD       *)
(* writes its console line after the command 0x24.                         *)
CallClearThrows(fast) ==
    LET events == clearTransfer(variant, buffer)
                      \o Emit(variant, turnOnDisplay(variant, fast))
    IN  /\ RejectedCall(Call("clear", 0, 0, 0, <<>>, FALSE, fast))
        /\ buffer' = clearBufferAfter(variant, buffer)
        /\ \E n \in 1 .. Len(events) :
               Thrown(<<>>, events, n,
                      IF variant = "EPD" /\ n > Len(sendCommand(variant, 36))
                      THEN <<"SPI Write Clear 1">> ELSE <<>>)
        /\ UNCHANGED session

(* display(imageBuffer?): a write throws. *)
CallDisplayThrows(hasImg, imageBuffer) ==
    LET events == displayTransfer(variant,
                                  IF hasImg THEN imageBuffer ELSE buffer)
                      \o Emit(variant, turnOnDisplay(variant, TRUE))
    IN  /\ RejectedCall(Call("display", 0, 0, 0, imageBuffer, hasImg, FALSE))
        /\ \E n \in 1 .. Len(events) : Thrown(<<>>, events, n, <<>>)
        /\ UNCHANGED <<buffer, session>>

(* sleep(): a write throws. *)
CallSleepThrows ==
    LET events == sendCommand(variant, 16) \o sendData(variant, 1)
    IN  /\ RejectedCall(Call("sleep", 0, 0, 0, <<>>, FALSE, FALSE))
        /\ \E n \in 1 .. Len(events) : Thrown(<<>>, events, n, <<>>)
        /\ UNCHANGED <<buffer, session>>

----------------------------------------------------------------------------
(* Calls that overlap: the caller does not await a call before it makes    *)
(* the next one.  The code of a call runs without interruption from one    *)
(* await to the next; at an await the other call may run.  A call is a     *)
(* sequence of segments: the writes of a run, and what the run then        *)
(* awaits, a delay or the busy-wait.                                       *)
Segment(events, awaited) == [ev |-> events, aw |-> awaited]

(* display that awaits a delay between the command 0x24 and the buffer. *)
Segments_pausedDisplay(v, call, sent) ==
    IF call.op = "init"
    THEN <<Segment(<<Gpio("rst", 1)>>, "delay"),
           Segment(<<Gpio("rst", 0)>>, "delay"),
           Segment(<<Gpio("rst", 1)>>, "delay"),
           Segment(<<>>, "busy"),
           Segment(sendCommand(v, 18), "busy")>>
         \o (IF v = "onoff"
             THEN <<Segment(Emit(v, RegisterProgramOnoff), "busy"),
                    Segment(Emit(v, CursorProgramOnoff), "busy")>>
             ELSE <<Segment(Emit(v, RegisterProgram), "busy")>>)
    ELSE IF call.op = "clear"
    THEN <<Segment(clearTransfer(v, sent)
                   \o Emit(v, turnOnDisplay(v, call.fast)), "busy")>>
    ELSE IF call.op = "display"
    THEN <<Segment(sendCommand(v, 36), "delay"),
           Segment((IF v = "lgpio" THEN sendSPIBytes(sent)
                    ELSE sendDataBuffer(v, sent))
                   \o Emit(v, turnOnDisplay(v, TRUE)), "busy")>>
    ELSE <<Segment(sendCommand(v, 16) \o sendData(v, 1), "delay")>>

(* The segments of init, clear, display and sleep; sent is the buffer that *)
(* clear or display streams.                                               *)
Segments(v, call, sent) ==
    IF call.op = "init"
    THEN <<Segment(<<Gpio("rst", 1)>>, "delay"),
           Segment(<<Gpio("rst", 0)>>, "delay"),
           Segment(<<Gpio("rst", 1)>>, "delay"),
           Segment(<<>>, "busy"),
           Segment(sendCommand(v, 18), "busy")>>
         \o (IF v = "onoff"
             THEN <<Segment(Emit(v, RegisterProgramOnoff), "busy"),
                    Segment(Emit(v, CursorProgramOnoff), "busy")>>
             ELSE <<Segment(Emit(v, RegisterProgram), "busy")>>)
    ELSE IF call.op = "clear"
    THEN <<Segment(clearTransfer(v, sent)
                   \o Emit(v, turnOnDisplay(v, call.fast)), "busy")>>
    ELSE IF call.op = "display"
    THEN <<Segment(displayTransfer(v, sent)
                   \o Emit(v, turnOnDisplay(v, TRUE)), "busy")>>
    ELSE <<Segment(sendCommand(v, 16) \o sendData(v, 1), "delay")>>

(* The writes of a run as writes of call i. *)
Tagged(i, events) == [k \in 1 .. Len(events) |-> <<i, events[k]>>]

(* Where a call stands when its poll loop has ended: EPD returns from the  *)
(* busy-wait, the EPD4in26 classes await delay(20) first.                  *)
LoopLeft(v) == IF v = "EPD" THEN "ret" ELSE "tail"

(* Call i (o is its record) runs segment k: the writes, then the await;    *)
(* a busy-wait reads the line in the same run.                             *)
RunSegment(i, o, k, level) ==
    LET sg == Segments(variant, o.call, o.sent)[k]
    IN  /\ wire' = wire \o Tagged(i, sg.ev)
        /\ ops' = [ops EXCEPT ![i] =
                      [o EXCEPT !.seg = k,
                                !.count = 0,
                                !.at = IF sg.aw = "delay" THEN "delay"
                                       ELSE IF IsBusy(variant, level)
                                       THEN "poll"
                                       ELSE LoopLeft(variant)]]

(* The call is made: it runs to its first await.  clear fills the          *)
(* framebuffer first (not in the onoff class).                             *)
OverlapCall(i, call, level) ==
    /\ ops[i].at = "none"
    /\ buffer' = IF call.op = "clear"
                 THEN clearBufferAfter(variant, buffer) ELSE buffer
    /\ RunSegment(i, [NoOp EXCEPT
                          !.call = call,
                          !.sent = IF call.op = "clear"
                                   THEN clearBuffer(buffer)
                                   ELSE IF call.hasImg THEN call.img
                                   ELSE buffer],
                  1, level)
    /\ UNCHANGED <<variant, last, prev, ndraw, result, log, pc, cont, count,
                   reads, highReads, waitEnd, trace, session, callSession,
                   cleanups, released, stale, load>>

(* The delay inside the poll loop of call i is over. *)
OverlapPoll(i, level) ==
    /\ ops[i].at = "poll"
    /\ ops' = [ops EXCEPT ![i] =
                  [ops[i] EXCEPT
                      !.count = ops[i].count + 1,
                      !.at = IF ops[i].count + 1 > BusyCap
                             THEN LoopLeft(variant)
                             ELSE IF IsBusy(variant, level) THEN "poll"
                             ELSE LoopLeft(variant)]]
    /\ UNCHANGED <<variant, buffer, last, prev, ndraw, result, log, pc, cont,
                   count, reads, highReads, waitEnd, trace, session,
                   callSession, cleanups, released, stale, load, wire>>

(* The delay(20) after the poll loop of call i is over. *)
OverlapTail(i) ==
    /\ ops[i].at = "tail"
    /\ ops' = [ops EXCEPT ![i] = [ops[i] EXCEPT !.at = "ret"]]
    /\ UNCHANGED <<variant, buffer, last, prev, ndraw, result, log, pc, cont,
                   count, reads, highReads, waitEnd, trace, session,
                   callSession, cleanups, released, stale, load, wire>>

(* The await of call i is over: the next segment runs, or the call         *)
(* returns.                                                                *)
OverlapResume(i, level) ==
    /\ ops[i].at \in {"delay", "ret"}
    /\ IF ops[i].seg = Len(Segments(variant, ops[i].call, ops[i].sent))
       THEN /\ ops' = [ops EXCEPT ![i] = [ops[i] EXCEPT !.at = "done"]]
            /\ wire' = wire
       ELSE RunSegment(i, ops[i], ops[i].seg + 1, level)
    /\ UNCHANGED <<variant, buffer, last, prev, ndraw, result, log, pc, cont,
                   count, reads, highReads, waitEnd, trace, session,
                   callSession, cleanups, released, stale, load>>

----------------------------------------------------------------------------
(* loadImageInBuffer(path) of EPD.  The file, the decoders (bmp-js, sharp) *)
(* and the resize are outside the program: the decoded size and the        *)
(* thresholded pixels are inputs.                                          *)

(* A ratio n/d of positive integers is the pair <<n, d>>. *)
MinRatio(a, b) == IF a[1] * b[2] <= b[1] * a[2] THEN a ELSE b

(* The scale factor without the 1 that keeps small images small. *)
scaleFactor_noCap(width, height) ==
    MinRatio(<<WIDTH, width>>, <<HEIGHT, height>>)

(* Math.min(WIDTH / bitmap.width, HEIGHT / bitmap.height, 1) *)
scaleFactor(width, height) ==
    MinRatio(MinRatio(<<WIDTH, width>>, <<HEIGHT, height>>), <<1, 1>>)

RECURSIVE Gcd(_, _)
Gcd(a, b) == IF b = 0 THEN a ELSE Gcd(b, a % b)

RECURSIVE IsPowerOfTwo(_)
IsPowerOfTwo(n) == n = 1 \/ (n > 1 /\ n % 2 = 0 /\ IsPowerOfTwo(n \div 2))

(* The quotient n/d is a double that is not the exact ratio, so that the   *)
(* product with the size may come out just below a whole number.           *)
Inexact(f) == ~IsPowerOfTwo(f[2] \div Gcd(f[1], f[2]))

(* The outcomes of Math.floor(size * scaleFactor) in double arithmetic:    *)
(* the floor of the exact product and, where the exact product is a whole  *)
(* number and the factor is inexact, the number below it.                  *)
FloorScaled(size, f) ==
    {(size * f[1]) \div f[2]}
    \cup (IF Inexact(f) /\ (size * f[1]) % f[2] = 0
          THEN {((size * f[1]) \div f[2]) - 1}
          ELSE {})

(* The offset rounded up instead of down. *)
Offset_roundUp(panel, target) ==
    IF (panel - target + 1) \div 2 > 0 THEN (panel - target + 1) \div 2 ELSE 0

(* Math.max(0, Math.floor((panel - target) / 2)); \div rounds down. *)
Offset(panel, target) ==
    IF (panel - target) \div 2 > 0 THEN (panel - target) \div 2 ELSE 0

(* The pixel loop, byte by byte.  Every store is buf[byteIndex] &= ~(1 <<  *)
(* bitIndex) on a buffer of 0xFF, so a byte ends as 0xFF without the bits  *)
(* that the black pixels (value 0) falling into it name.                   *)
ClearedBits(grid, tw, th, xOffset, yOffset, byteIndex) ==
    {7 - ((x + xOffset) % 8) :
        x \in {c \in 0 .. tw - 1 :
                 \E y \in 0 .. th - 1 :
                     /\ (c + xOffset + (y + yOffset) * WIDTH) \div 8
                            = byteIndex
                     /\ grid[y * tw + c + 1] = 0}}

RECURSIVE MaskOf(_, _)
MaskOf(bits, k) ==
    IF k > 7 THEN 0
    ELSE (IF k \in bits THEN Shl(1, k) ELSE 0) + MaskOf(bits, k + 1)

(* The pixel loop without the offsets: the image in the top left corner. *)
packPixels_noCentre(grid, tw, th, xOffset, yOffset) ==
    [i \in 1 .. (WIDTH \div 8) * HEIGHT |->
        BitAnd(255, Not8(MaskOf(
            ClearedBits(grid, tw, th, 0, 0, i - 1), 0)))]

(* Buffer.alloc((WIDTH / 8) * HEIGHT, 0xff) after the pixel loop. *)
packPixels(grid, tw, th, xOffset, yOffset) ==
    [i \in 1 .. (WIDTH \div 8) * HEIGHT |->
        BitAnd(255, Not8(MaskOf(
            ClearedBits(grid, tw, th, xOffset, yOffset, i - 1), 0)))]

(* Thresholded images tried, one byte per pixel, 0 (black) or 255: all     *)
(* black, all white, a checkerboard, only the first and only the last      *)
(* pixel black.                                                            *)
GridKinds == {"black", "white", "checker", "first", "last"}

Grid(kind, tw, th) ==
    [i \in 1 .. tw * th |->
        IF \/ kind = "black"
           \/ kind = "checker" /\ (((i - 1) % tw) + ((i - 1) \div tw)) % 2 = 0
           \/ kind = "first" /\ i = 1
           \/ kind = "last" /\ i = tw * th
        THEN 0 ELSE 255]

(* What a loadImageInBuffer call does to the bookkeeping when it starts. *)
LoadCall(width, height) ==
    /\ variant = "EPD"
    /\ pc = "idle"
    /\ last' = SizedCall("loadImageInBuffer", 0, 0, width, height, 0)
    /\ prev' = buffer
    /\ callSession' = session
    /\ trace' = <<>>
    /\ UNCHANGED <<variant, buffer, ndraw, cont, count, reads, highReads,
                   waitEnd, session, cleanups, released, stale, ops,
                   wire>>

(* The resize started whatever the target size is. *)
StartResize_anySize(width, height, tw, th, lg) ==
    /\ load' = [NoLoad EXCEPT !.bitmapWidth = width,
                              !.bitmapHeight = height,
                              !.scaleNum = scaleFactor(width, height)[1],
                              !.scaleDen = scaleFactor(width, height)[2],
                              !.targetWidth = tw, !.targetHeight = th]
    /\ log' = lg
    /\ pc' = "resize" /\ result' = "pending"

(* From the decoded bitmap to the await of the resize: the scale factor    *)
(* and the target size.  sharp refuses a size that is not positive.        *)
StartResize(width, height, tw, th, lg) ==
    /\ load' = [NoLoad EXCEPT !.bitmapWidth = width,
                              !.bitmapHeight = height,
                              !.scaleNum = scaleFactor(width, height)[1],
                              !.scaleDen = scaleFactor(width, height)[2],
                              !.targetWidth = tw, !.targetHeight = th]
    /\ log' = lg
    /\ IF tw >= 1 /\ th >= 1
       THEN pc' = "resize" /\ result' = "pending"
       ELSE pc' = "idle" /\ result' = "Error"

(* loadImageInBuffer of a file that bmp-js decodes, to the await of the    *)
(* resize.  width and height are the size of the bitmap.                   *)
CallLoadImageInBuffer(width, height) ==
    /\ LoadCall(width, height)
    /\ \E tw \in FloorScaled(width, scaleFactor(width, height)),
          th \in FloorScaled(height, scaleFactor(width, height)) :
           StartResize(width, height, tw, th, <<>>)

(* loadImageInBuffer of a file that bmp-js does not decode, to the await   *)
(* of the conversion.                                                      *)
CallLoadOtherImage(width, height) ==
    /\ LoadCall(width, height)
    /\ load' = NoLoad
    /\ log' = <<"epaper: Image is not in BMP format, converting using sharp...">>
    /\ pc' = "convert"
    /\ result' = "pending"

(* The conversion whose failure is only written to the console: the call  *)
(* goes on and returns a white buffer.                                     *)
ConvertDone_swallowed(ok) ==
    /\ pc = "convert"
    /\ IF ok
       THEN \E tw \in FloorScaled(WIDTH, scaleFactor(WIDTH, HEIGHT)),
               th \in FloorScaled(HEIGHT, scaleFactor(WIDTH, HEIGHT)) :
                StartResize(WIDTH, HEIGHT, tw, th,
                   log \o <<"epaper: Image loaded, converting to BMP format...",
                            "epaper: Image converted to BMP!">>)
       ELSE /\ log' = Append(log, "epaper: Error:")
            /\ pc' = "idle"
            /\ result' = "ok"
            /\ load' = [NoLoad EXCEPT !.out = Alloc(BufLen, 255)]
    /\ UNCHANGED <<variant, buffer, last, prev, ndraw, cont, count, reads,
                   highReads, waitEnd, trace, session, callSession, cleanups,
                   released, stale, ops, wire>>

(* The conversion has ended.  When it worked (ok) the bitmap has the size  *)
(* of the panel; when it did not, the error is written to the console and  *)
(* the call throws "Failed to load image".                                 *)
ConvertDone(ok) ==
    /\ pc = "convert"
    /\ IF ok
       THEN \E tw \in FloorScaled(WIDTH, scaleFactor(WIDTH, HEIGHT)),
               th \in FloorScaled(HEIGHT, scaleFactor(WIDTH, HEIGHT)) :
                StartResize(WIDTH, HEIGHT, tw, th,
                   log \o <<"epaper: Image loaded, converting to BMP format...",
                            "epaper: Image converted to BMP!">>)
       ELSE /\ log' = Append(log, "epaper: Error:")
            /\ pc' = "idle"
            /\ result' = "Failed to load image"
            /\ load' = NoLoad
    /\ UNCHANGED <<variant, buffer, last, prev, ndraw, cont, count, reads,
                   highReads, waitEnd, trace, session, callSession, cleanups,
                   released, stale, ops, wire>>

(* loadImageInBuffer that also keeps the result as the framebuffer. *)
ResizeDone_intoFramebuffer(kind) ==
    LET tw == load.targetWidth
        th == load.targetHeight
        xOffset == Offset(WIDTH, tw)
        yOffset == Offset(HEIGHT, th)
        grid == Grid(kind, tw, th)
    IN  /\ pc = "resize"
        /\ load' = [load EXCEPT !.xOffset = xOffset, !.yOffset = yOffset,
                                !.grid = grid,
                                !.out = packPixels(grid, tw, th,
                                                   xOffset, yOffset)]
        /\ buffer' = packPixels(grid, tw, th, xOffset, yOffset)
        /\ pc' = "idle"
        /\ result' = "ok"
        /\ UNCHANGED <<variant, last, prev, ndraw, log, cont, count,
                       reads, highReads, waitEnd, trace, session,
                       callSession, cleanups, released, stale, ops,
                       wire>>

(* The resize has ended with the thresholded pixels: the offsets, the      *)
(* pixel loop, and the call returns the buffer.                            *)
ResizeDone(kind) ==
    LET tw == load.targetWidth
        th == load.targetHeight
        xOffset == Offset(WIDTH, tw)
        yOffset == Offset(HEIGHT, th)
        grid == Grid(kind, tw, th)
    IN  /\ pc = "resize"
        /\ load' = [load EXCEPT !.xOffset = xOffset, !.yOffset = yOffset,
                                !.grid = grid,
                                !.out = packPixels(grid, tw, th,
                                                   xOffset, yOffset)]
        /\ pc' = "idle"
        /\ result' = "ok"
        /\ UNCHANGED <<variant, buffer, last, prev, ndraw, log, cont, count,
                       reads, highReads, waitEnd, trace, session,
                       callSession, cleanups, released, stale, ops,
                       wire>>

----------------------------------------------------------------------------
(* cleanup().  It is synchronous and tests nothing: every call makes the   *)
(* same library calls.                                                     *)

(* cleanup that closes the GPIO chip before it writes the power line. *)
cleanupEvents_closeFirst(v) ==
    IF v = "onoff"
    THEN <<Release("rst"), Release("dc"), Release("cs"), Release("busy"),
           Release("power"), Gpio("power", 0)>>
    ELSE <<Release("chip"), Gpio("power", 0), Release("spi")>>

(* The library calls of one cleanup(), in the order of the code. *)
cleanupEvents(v) ==
    IF v = "onoff"
    THEN <<Release("rst"), Release("dc"), Release("cs"), Release("busy"),
           Gpio("power", 0), Release("power")>>
    ELSE <<Gpio("power", 0), Release("chip"), Release("spi")>>

(* The handle a write to a line goes through: the Gpio object of the line  *)
(* in the onoff class, the GPIO chip handle in the lgpio classes.          *)
LineHandle(v, line) == IF v = "onoff" THEN line ELSE "chip"

(* How often the events ask to release a handle. *)
Releases(events, handle) ==
    Cardinality({i \in 1 .. Len(events) : events[i] = Release(handle)})

(* The events write to a handle that rel counts as released already. *)
WritesReleased(v, events, rel) ==
    \E i \in 1 .. Len(events) :
        /\ events[i][1] = "gpio"
        /\ rel[LineHandle(v, events[i][2])] > 0

(* cleanup().  On handles that an earlier cleanup has released, what the   *)
(* library does is its own matter: the first call of this cleanup throws   *)
(* (throws) and ends it, or every call returns and cleanup runs through.   *)
CallCleanup(throws) ==
    LET events == IF throws THEN SubSeq(cleanupEvents(variant), 1, 1)
                  ELSE cleanupEvents(variant)
    IN  /\ pc = "idle"
        /\ cleanups < MaxCleanup
        /\ throws => cleanups > 0
        /\ cleanups' = cleanups + 1
        /\ released' =
               [n \in HandleNames |-> released[n] + Releases(events, n)]
        /\ stale' = (stale \/ WritesReleased(variant, events, released))
        /\ trace' = events
        /\ result' = IF throws THEN "Error" ELSE "ok"
        /\ log' = IF variant = "onoff" /\ ~throws
                  THEN <<"EPD resources cleaned up">>
                  ELSE <<>>
        /\ last' = Call("cleanup", 0, 0, 0, <<>>, FALSE, FALSE)
        /\ prev' = buffer
        /\ callSession' = session
        /\ session' = "Unpowered"
        /\ UNCHANGED <<variant, buffer, ndraw, pc, cont, count, reads,
                       highReads, waitEnd, load, ops, wire>>

----------------------------------------------------------------------------
(* Spec: the protocol.  One caller makes the asynchronous calls one after  *)
(* the other, in any order and with any reading of the busy line.          *)

DisplayArgs == {<<FALSE, <<>>>>} \cup {<<TRUE, img>> : img \in Images}

Next ==
    \/ CallInit
    \/ ResetLow
    \/ ResetHigh
    \/ \E level \in Levels : ResetDone(level)
    \/ \E level \in Levels : InitSwReset(level)
    \/ \E level \in Levels : InitProgram(level)
    \/ \E level \in Levels : InitCursor(level)
    \/ InitDone
    \/ \E fast \in BOOLEAN, level \in Levels : CallClear(fast, level)
    \/ \E a \in DisplayArgs, level \in Levels : CallDisplay(a[1], a[2], level)
    \/ RefreshDone
    \/ CallSleep
    \/ SleepDone
    \/ \E level \in Levels : AfterDelay(level)
    \/ WaitTail

Spec == Init /\ [][Next]_vars

(* LiveSpec: the protocol with timers that fire: a delay that is being     *)
(* awaited ends, so the step after it is taken.                            *)
LiveSpec ==
    /\ Spec
    /\ WF_vars(\E level \in Levels : AfterDelay(level))
    /\ WF_vars(WaitTail)

(* LiveCallSpec: the protocol where bus writes return and timers fire:    *)
(* the code after an await runs when the awaited delay or busy-wait is     *)
(* over.                                                                   *)
Resume ==
    \/ ResetLow
    \/ ResetHigh
    \/ \E level \in Levels : ResetDone(level)
    \/ \E level \in Levels : InitSwReset(level)
    \/ \E level \in Levels : InitProgram(level)
    \/ \E level \in Levels : InitCursor(level)
    \/ InitDone
    \/ RefreshDone
    \/ SleepDone
    \/ \E level \in Levels : AfterDelay(level)
    \/ WaitTail

LiveCallSpec == Spec /\ WF_vars(Resume)

(* SpecFrame: the framebuffer.  The synchronous calls in any order. *)
NextFrame ==
    \/ \E x \in XCoords, y \in YCoords, color \in Colors :
           CallSetPixel(x, y, color)
    \/ CallClearBuffer
    \/ \E color \in Colors : CallFillBuffer(color)
    \/ \E img \in Images : CallLoadImage(img)

SpecFrame == Init /\ [][NextFrame]_vars

(* SpecDraw: one line or rectangle drawn on a framebuffer that earlier     *)
(* calls have left.  Every content of the framebuffer can be reached with  *)
(* setPixel; the ones tried are all zero, all white, and two of mixed      *)
(* bits.                                                                   *)
Earlier == Call("earlier", 0, 0, 0, <<>>, FALSE, FALSE)

Painted ==
    {Alloc(BufLen, 0), Alloc(BufLen, 255), Alloc(BufLen, 165), Ramp(BufLen)}

InitDraw ==
    /\ variant \in Variants
    /\ buffer \in Painted
    /\ last = Earlier
    /\ prev = buffer
    /\ ndraw = 0
    /\ result = "ok"
    /\ log = <<>>
    /\ pc = "idle"
    /\ cont = "none"
    /\ count = 0
    /\ reads = 0
    /\ highReads = 0
    /\ waitEnd = "none"
    /\ trace = <<>>
    /\ session = "Unpowered"
    /\ callSession = "Unpowered"
    /\ cleanups = 0
    /\ released = NoRelease
    /\ stale = FALSE
    /\ load = NoLoad
    /\ ops = [i \in Slots |-> NoOp]
    /\ wire = <<>>

NextDraw ==
    \/ /\ Blank
       /\ \E x \in XCoords, y \in YCoords, width \in Lengths, color \in Inks :
              CallDrawHLine(x, y, width, color)
    \/ /\ Blank
       /\ \E x \in XCoords, y \in YCoords, height \in Lengths, color \in Inks :
              CallDrawVLine(x, y, height, color)
    \/ /\ Blank
       /\ \E x \in XCoords, y \in YCoords, width \in Lengths,
             height \in Lengths, color \in Inks :
              CallDrawRect(x, y, width, height, color)
    \/ /\ Blank
       /\ \E x \in XCoords, y \in YCoords, width \in Lengths,
             height \in Lengths, color \in Inks :
              CallFillRect(x, y, width, height, color)

SpecDraw == InitDraw /\ [][NextDraw]_vars

(* SpecImage: loadImageInBuffer on files with images up to MaxSrc pixels   *)
(* wide and a quarter of that high.                                        *)
SrcWidths == 1 .. MaxSrc

SrcHeights == 1 .. (MaxSrc \div 4)

NextImage ==
    \/ \E width \in SrcWidths, height \in SrcHeights :
           CallLoadImageInBuffer(width, height)
    \/ \E width \in SrcWidths, height \in SrcHeights :
           CallLoadOtherImage(width, height)
    \/ \E ok \in BOOLEAN : ConvertDone(ok)
    \/ \E kind \in GridKinds : ResizeDone(kind)

SpecImage == Init /\ [][NextImage]_vars

(* SpecBus: the protocol, and the send methods called on their own with   *)
(* sample bytes and buffers.                                               *)
SampleBytes == {0, 36, 255}

NextBus ==
    \/ Next
    \/ \E command \in SampleBytes : CallSendCommand(command)
    \/ \E data \in SampleBytes : CallSendData(data)
    \/ \E data \in Images : CallSendDataBuffer(data)
    \/ \E data \in Images : CallSendSPIBytes(data)

SpecBus == Init /\ [][NextBus]_vars

(* SpecAddress: the address bytes of init for the panel sizes a driver    *)
(* can be constructed with: widths that are multiples of 8, and heights    *)
(* around the byte borders.  Each driver is initialised once.              *)
PanelWidths == {8 * k : k \in 1 .. 128}

PanelHeights == {1, 2, 255, 256, 257, 480, 512, 4096, 65535, 65536}

NextAddress ==
    /\ Blank
    /\ \E width \in PanelWidths, height \in PanelHeights :
           InitAddress(width, height)

SpecAddress == Init /\ [][NextAddress]_vars

(* SpecOverlap: two calls on one driver, the second (call 2) made at any   *)
(* moment after the first, also before the first has returned.  The busy   *)
(* line reads busy at most MaxBusy times in one busy-wait.                 *)
OverlapCalls ==
    {Call("init", 0, 0, 0, <<>>, FALSE, FALSE),
     Call("clear", 0, 0, 0, <<>>, FALSE, TRUE),
     Call("clear", 0, 0, 0, <<>>, FALSE, FALSE),
     Call("display", 0, 0, 0, <<>>, FALSE, FALSE),
     Call("display", 0, 0, 0, Ramp(BufLen), TRUE, FALSE),
     Call("sleep", 0, 0, 0, <<>>, FALSE, FALSE)}

NextOverlap ==
    \/ \E i \in Slots, call \in OverlapCalls, level \in Levels :
           /\ i = 2 => ops[1].at # "none"
           /\ OverlapCall(i, call, level)
    \/ \E i \in Slots, level \in Levels :
           /\ IsBusy(variant, level) => ops[i].count + 1 < MaxBusy
           /\ OverlapPoll(i, level)
    \/ \E i \in Slots : OverlapTail(i)
    \/ \E i \in Slots, level \in Levels : OverlapResume(i, level)

SpecOverlap == Init /\ [][NextOverlap]_vars

(* SpecFault: the protocol with writes that may fail. *)
NextFault ==
    \/ Next
    \/ CallInitThrows
    \/ ResetThrows
    \/ InitThrows
    \/ \E fast \in BOOLEAN : CallClearThrows(fast)
    \/ \E a \in DisplayArgs : CallDisplayThrows(a[1], a[2])
    \/ CallSleepThrows

SpecFault == Init /\ [][NextFault]_vars

(* SpecLife: a driver that is initialised, put to sleep and cleaned up.    *)
(* Once cleanup has been called, only further cleanup calls are explored.  *)
NextLife ==
    \/ cleanups = 0 /\ CallInit
    \/ ResetLow
    \/ ResetHigh
    \/ \E level \in Levels : ResetDone(level)
    \/ \E level \in Levels : InitSwReset(level)
    \/ \E level \in Levels : InitProgram(level)
    \/ \E level \in Levels : InitCursor(level)
    \/ InitDone
    \/ cleanups = 0 /\ CallSleep
    \/ SleepDone
    \/ \E level \in Levels : AfterDelay(level)
    \/ WaitTail
    \/ \E throws \in BOOLEAN : CallCleanup(throws)

SpecLife == Init /\ [][NextLife]_vars

(* SpecShow: the framebuffer on its way to the panel.  Calls that change   *)
(* the framebuffer (the bulk operations, setPixel on two opposite corners, *)
(* a horizontal line from the first pixel) mixed with clear and display.   *)
Corners == {<<0, 0>>, <<WIDTH - 1, HEIGHT - 1>>}

ShowArgs == {<<FALSE, <<>>>>, <<TRUE, Ramp(BufLen)>>}

NextShow ==
    \/ \E p \in Corners, color \in Inks : CallSetPixel(p[1], p[2], color)
    \/ \E width \in Lengths : CallDrawHLine(0, 0, width, 1)
    \/ CallClearBuffer
    \/ \E color \in Inks : CallFillBuffer(color)
    \/ CallLoadImage(Alloc(BufLen, 165))
    \/ \E fast \in BOOLEAN, level \in Levels : CallClear(fast, level)
    \/ \E a \in ShowArgs, level \in Levels : CallDisplay(a[1], a[2], level)
    \/ RefreshDone
    \/ \E level \in Levels : AfterDelay(level)
    \/ WaitTail

SpecShow == Init /\ [][NextShow]_vars

(* SpecLoadShow: loadImageInBuffer between changes of the framebuffer and  *)
(* display() without argument.  The files hold a small image, a wide one   *)
(* and one so flat that nothing is left of it.                             *)
ShownWidths == {5, MaxSrc}

ShownHeights == {1, 3}

NextLoadShow ==
    \/ \E p \in Corners, color \in Inks : CallSetPixel(p[1], p[2], color)
    \/ \E color \in Inks : CallFillBuffer(color)
    \/ \E width \in ShownWidths, height \in ShownHeights :
           CallLoadImageInBuffer(width, height)
    \/ CallLoadOtherImage(5, 1)
    \/ \E ok \in BOOLEAN : ConvertDone(ok)
    \/ \E kind \in GridKinds : ResizeDone(kind)
    \/ \E level \in Levels : CallDisplay(FALSE, <<>>, level)
    \/ RefreshDone
    \/ \E level \in Levels : AfterDelay(level)
    \/ WaitTail

SpecLoadShow == Init /\ [][NextLoadShow]_vars

----------------------------------------------------------------------------
(* Reading the state for the properties below.                             *)

(* Bit k (0 = least significant) of byte b. *)
Bit(b, k) == (b \div (2 ^ k)) % 2

InPanel(x, y) == 0 <= x /\ x < WIDTH /\ 0 <= y /\ y < HEIGHT

(* Where the buffer format puts pixel (x, y). *)
PixelByte(x, y) == (x + y * WIDTH) \div 8

PixelBit(x) == 7 - (x % 8)

(* The length the buffer format gives a framebuffer. *)
FrameLen == (WIDTH \div 8) * HEIGHT

Range(s) == {s[i] : i \in 1 .. Len(s)}

(* The trace as the panel sees it: each byte on the bus is a command when  *)
(* the data/command line was last driven low and data when it was last     *)
(* driven high ("undriven" when the call has not driven it yet); writes to *)
(* the other lines and the returns of busy-waits stay in place.  dc is the *)
(* level of the data/command line so far.                                  *)
Bytes(kind, bytes) == [i \in 1 .. Len(bytes) |-> <<kind, bytes[i]>>]

IsDcWrite(e) == e[1] = "gpio" /\ e[2] = "dc"

(* The level of the data/command line after the events lo .. hi of tr. *)
RECURSIVE DcAfter(_, _, _, _)
DcAfter(tr, lo, hi, dc) ==
    IF hi < lo THEN dc
    ELSE IF IsDcWrite(tr[hi]) THEN tr[hi][3][1]
    ELSE DcAfter(tr, lo, hi - 1, dc)

(* What the panel sees of one event. *)
SeenEvent(e, dc) ==
    IF IsDcWrite(e) THEN <<>>
    ELSE IF e[1] = "gpio" THEN <<(<<e[2], e[3][1]>>)>>
    ELSE IF e[1] = "spi"
    THEN Bytes(IF dc = 0 THEN "cmd"
               ELSE IF dc = 1 THEN "data" ELSE "undriven", e[3])
    ELSE IF e[1] = "close" THEN <<(<<"close", e[2]>>)>>
    ELSE <<(<<"wait", 0>>)>>

(* The events lo .. hi of tr, halved until one event is left. *)
RECURSIVE SeenRange(_, _, _, _)
SeenRange(tr, lo, hi, dc) ==
    IF hi < lo THEN <<>>
    ELSE IF lo = hi THEN SeenEvent(tr[lo], dc)
    ELSE LET mid == (lo + hi) \div 2
         IN  SeenRange(tr, lo, mid, dc)
             \o SeenRange(tr, mid + 1, hi, DcAfter(tr, lo, mid, dc))

Seen(tr, dc) == SeenRange(tr, 1, Len(tr), dc)

Panel == Seen(trace, 0 - 1)

IsPrefix(s, t) == Len(s) <= Len(t) /\ s = SubSeq(t, 1, Len(s))

(* What the call put on the bus and when its busy-waits returned: Panel    *)
(* without the writes to the control lines.                                *)
IsBusItem(e) == e[1] \in {"cmd", "data", "undriven", "wait"}

OnBus == SelectSeq(Panel, IsBusItem)

(* The bytes of a buffer as data bytes on the bus. *)
AsData(buf) == [i \in 1 .. Len(buf) |-> <<"data", buf[i]>>]

(* The level of the busy line that means "busy" for each class. *)
BusyLevel(v) == IF v = "onoff" THEN 0 ELSE 1

(* How many reads of the running busy-wait returned "ready". *)
ReadyReads ==
    IF BusyLevel(variant) = 1 THEN reads - highReads ELSE highReads

----------------------------------------------------------------------------
(* C1: for an in-bounds (x, y) and a colour in {0, 1}, setPixel changes at *)
(* most bit 7 - x mod 8 of byte floor((x + y*width)/8), a byte of the      *)
(* buffer; after colour 1 that bit is 0, after colour 0 it is 1; every     *)
(* other bit of the buffer is as before, and the length is as before.      *)
C1_SetPixelInBounds ==
    (last.op = "setPixel" /\ InPanel(last.x, last.y) /\ last.color \in {0, 1})
    => /\ Len(buffer) = Len(prev)
       /\ PixelByte(last.x, last.y) < Len(buffer)
       /\ \A i \in 0 .. Len(buffer) - 1 : \A k \in 0 .. 7 :
            Bit(ByteAt(buffer, i), k) =
              IF i = PixelByte(last.x, last.y) /\ k = PixelBit(last.x)
              THEN 1 - last.color
              ELSE Bit(ByteAt(prev, i), k)
       /\ \A i \in 0 .. Len(buffer) - 1 : ByteAt(buffer, i) \in 0 .. 255

(* A black pixel set in the second byte of the second row of a buffer     *)
(* whose pixel was white: the call changed the buffer.                     *)
C1_Witness ==
    /\ last.op = "setPixel" /\ last.color = 1
    /\ last.x = 10 /\ last.y = 1
    /\ Bit(ByteAt(prev, PixelByte(10, 1)), PixelBit(10)) = 1
    /\ buffer # prev

(* C2: setPixel with x or y outside the panel leaves every byte of the     *)
(* framebuffer as it was and returns normally.                             *)
C2_SetPixelOutOfBounds ==
    (last.op = "setPixel" /\ ~InPanel(last.x, last.y))
    => buffer = prev /\ result = "ok"

(* A black pixel one step right of the first row, on a white buffer: the   *)
(* flat index x + y*width would fall into the second row.                  *)
C2_Witness ==
    /\ last.op = "setPixel" /\ last.color = 1
    /\ last.x = WIDTH /\ last.y = 0
    /\ \A i \in 0 .. Len(prev) - 1 : ByteAt(prev, i) = 255

(* C3: display() or clear() on a driver whose init() has never completed   *)
(* fails with NotInitialized and writes nothing to the bus or the lines.   *)
C3_NotInitialized ==
    (last.op \in {"display", "clear"} /\ callSession = "Unpowered")
    => result = "NotInitialized" /\ trace = <<>>

(* C4: a display() made after sleep() and before a new init() fails with   *)
(* NotInitialized and sends neither write-RAM (0x24) nor activate (0x20).  *)
C4_NoDisplayWhileSleeping ==
    (last.op = "display" /\ callSession = "Sleeping")
    => /\ result = "NotInitialized"
       /\ <<"cmd", 36>> \notin Range(Panel)
       /\ <<"cmd", 32>> \notin Range(Panel)

(* C5: the busy-wait reads the line at most 1001 times; while it polls,    *)
(* every read so far was busy; it returns on the first ready read, or      *)
(* after 1001 busy reads; and every poll that does not return raises the   *)
(* count, so that the wait returns whatever the line does.                 *)
C5_WaitState ==
    /\ reads <= 1001
    /\ pc = "poll" => waitEnd = "none" /\ ReadyReads = 0 /\ reads = count + 1
    /\ waitEnd = "ready" /\ pc \in {"ret", "tail"} => ReadyReads = 1
    /\ waitEnd = "cap" /\ pc \in {"ret", "tail"}
           => ReadyReads = 0 /\ reads = 1001

C5_BusyWaitTerminates ==
    /\ []C5_WaitState
    /\ (pc = "poll") ~> (pc = "ret")

(* A busy-wait that ended at the cap. *)
C5_Witness == waitEnd = "cap" /\ pc = "ret" /\ reads = 1001

(* C6: a busy-wait that ends at the cap raises or flags BusyTimeout.       *)
C6_TimeoutFlagged ==
    waitEnd = "cap"
    => result = "BusyTimeout" \/ "Busy timeout!" \in Range(log)

(* C7: init() of EPD emits, in this order and nothing else: the reset line *)
(* high, low, high; busy-wait; 0x12; busy-wait; the register program;      *)
(* busy-wait.                                                              *)
C7_Expected ==
    <<(<<"rst", 1>>), <<"rst", 0>>, <<"rst", 1>>,
      <<"wait", 0>>,
      <<"cmd", 18>>,
      <<"wait", 0>>,
      <<"cmd", 24>>, <<"data", 128>>,
      <<"cmd", 12>>, <<"data", 174>>, <<"data", 199>>, <<"data", 195>>,
          <<"data", 192>>, <<"data", 128>>,
      <<"cmd", 1>>, <<"data", (HEIGHT - 1) % 256>>,
          <<"data", (HEIGHT - 1) \div 256>>, <<"data", 2>>,
      <<"cmd", 60>>, <<"data", 1>>,
      <<"cmd", 17>>, <<"data", 1>>,
      <<"cmd", 68>>, <<"data", 0>>, <<"data", 0>>,
          <<"data", (WIDTH - 1) % 256>>, <<"data", (WIDTH - 1) \div 256>>,
      <<"cmd", 69>>, <<"data", (HEIGHT - 1) % 256>>,
          <<"data", (HEIGHT - 1) \div 256>>, <<"data", 0>>, <<"data", 0>>,
      <<"cmd", 78>>, <<"data", 0>>, <<"data", 0>>,
      <<"cmd", 79>>, <<"data", 0>>, <<"data", 0>>,
      <<"wait", 0>>>>

C7_InitTrace ==
    (variant = "EPD" /\ last.op = "init")
    => /\ IsPrefix(Panel, C7_Expected)
       /\ result = "ok" => Panel = C7_Expected

(* An init of EPD that has returned. *)
C7_Witness ==
    variant = "EPD" /\ last.op = "init" /\ result = "ok" /\ pc = "idle"

(* C8: right after construction every byte of the framebuffer is 0xFF.     *)
C8_FreshBufferWhite ==
    last.op = "new" => \A i \in 0 .. Len(buffer) - 1 : ByteAt(buffer, i) = 255

(* C9: loadImage(buf) with buf of length width/8*height makes the          *)
(* framebuffer equal to buf; with any other length it leaves every byte of *)
(* the framebuffer as it was.                                              *)
C9_LoadImage ==
    last.op = "loadImage"
    => /\ Len(buffer) = FrameLen
       /\ IF Len(last.img) = FrameLen
          THEN buffer = last.img
          ELSE buffer = prev

(* An image of the right length replaced a different framebuffer. *)
C9_Witness ==
    /\ last.op = "loadImage" /\ Len(last.img) = FrameLen
    /\ buffer # prev /\ buffer = Ramp(FrameLen)

(* C10: loadImage(buf) with buf of another length than width/8*height      *)
(* fails with SizeMismatch instead of returning normally.                  *)
C10_SizeMismatchSurfaced ==
    (last.op = "loadImage" /\ Len(last.img) # FrameLen)
    => result = "SizeMismatch"

(* The colour of pixel (x, y) of a framebuffer: 1 is black, 0 is white.    *)
PixelColor(buf, x, y) == 1 - Bit(ByteAt(buf, PixelByte(x, y)), PixelBit(x))

PanelXs == 0 .. WIDTH - 1

PanelYs == 0 .. HEIGHT - 1

AllBytes(buf, b) == \A i \in 0 .. Len(buf) - 1 : ByteAt(buf, i) = b

(* Pixel (px, py) lies in the rectangle [x, x+w) x [y, y+h). *)
InRect(px, py, x, y, w, h) ==
    x <= px /\ px < x + w /\ y <= py /\ py < y + h

(* ... and on its one-pixel border. *)
OnBorder(px, py, x, y, w, h) ==
    /\ InRect(px, py, x, y, w, h)
    /\ px = x \/ px = x + w - 1 \/ py = y \/ py = y + h - 1

(* C11: clearBuffer() leaves every byte 0xFF; fillBuffer(0) leaves every   *)
(* byte 0xFF and fillBuffer(c) with c # 0 leaves every byte 0x00; the      *)
(* length of the buffer stays as it was.                                   *)
C11_BulkFill ==
    /\ last.op = "clearBuffer"
           => Len(buffer) = Len(prev) /\ AllBytes(buffer, 255)
    /\ last.op = "fillBuffer"
           => /\ Len(buffer) = Len(prev)
              /\ AllBytes(buffer, IF last.color = 0 THEN 255 ELSE 0)

(* fillBuffer with a colour that is neither 0 nor 1, on a framebuffer of   *)
(* mixed bytes.                                                            *)
C11_Witness ==
    /\ last.op = "fillBuffer" /\ last.color = 2
    /\ prev = Ramp(FrameLen)
    /\ AllBytes(buffer, 0) /\ Len(buffer) = FrameLen

(* C12: fillRect(x, y, w, h, 1) makes every pixel of the panel that lies   *)
(* in [x, x+w) x [y, y+h) black and leaves every other pixel as it was,    *)
(* also when the rectangle is partly or wholly outside the panel or empty. *)
C12_FillRect ==
    (last.op = "fillRect" /\ last.color = 1)
    => /\ Len(buffer) = Len(prev)
       /\ \A i \in 0 .. Len(buffer) - 1 : ByteAt(buffer, i) \in 0 .. 255
       /\ \A px \in PanelXs, py \in PanelYs :
            PixelColor(buffer, px, py) =
              IF InRect(px, py, last.x, last.y, last.w, last.h)
              THEN 1
              ELSE PixelColor(prev, px, py)

(* A black rectangle that hangs over the right and the top edge of a white *)
(* framebuffer: part of it was drawn.                                      *)
C12_Witness ==
    /\ last.op = "fillRect" /\ last.color = 1
    /\ last.x = WIDTH - 1 /\ last.y = 0 - 1 /\ last.w = 3 /\ last.h = 3
    /\ AllBytes(prev, 255)
    /\ buffer # prev

(* C13: drawRect(x, y, w, h, c) with w >= 0 and h >= 0 sets to c the       *)
(* pixels of the panel on the one-pixel border of [x, x+w) x [y, y+h) and  *)
(* leaves every other pixel as it was; with w = 0 or h = 0 it changes      *)
(* nothing.                                                                *)
C13_DrawRect ==
    (last.op = "drawRect" /\ last.w >= 0 /\ last.h >= 0)
    => \A px \in PanelXs, py \in PanelYs :
         PixelColor(buffer, px, py) =
           IF OnBorder(px, py, last.x, last.y, last.w, last.h)
           THEN last.color
           ELSE PixelColor(prev, px, py)

(* C14: drawHLine and drawVLine set to c the pixels of the run that lie in *)
(* the panel and no other pixel: no wrap into the next row, only the       *)
(* in-panel part of a run that starts outside, nothing for a length <= 0.  *)
C14_Lines ==
    /\ last.op = "drawHLine"
           => \A px \in PanelXs, py \in PanelYs :
                PixelColor(buffer, px, py) =
                  IF py = last.y /\ last.x <= px /\ px < last.x + last.w
                  THEN last.color
                  ELSE PixelColor(prev, px, py)
    /\ last.op = "drawVLine"
           => \A px \in PanelXs, py \in PanelYs :
                PixelColor(buffer, px, py) =
                  IF px = last.x /\ last.y <= py /\ py < last.y + last.h
                  THEN last.color
                  ELSE PixelColor(prev, px, py)
    /\ last.op \in {"drawHLine", "drawVLine"} => Len(buffer) = Len(prev)

(* A black horizontal run of three pixels that starts on the last pixel of *)
(* the first row of a white framebuffer: one pixel was drawn, the second   *)
(* row is white.                                                           *)
C14_Witness ==
    /\ last.op = "drawHLine" /\ last.color = 1
    /\ last.x = WIDTH - 1 /\ last.y = 0 /\ last.w = 3
    /\ AllBytes(prev, 255)
    /\ PixelColor(buffer, WIDTH - 1, 0) = 1
    /\ PixelColor(buffer, 0, 1) = 0

(* C15: display(buf?) puts on the bus, in this order: the command 0x24;    *)
(* the bytes of buf as data or, without buf, the bytes of the framebuffer  *)
(* as it is when the call is made; the command 0x22, the mode byte, the    *)
(* command 0x20; and then it waits for the busy line.  The call returns    *)
(* only after that wait has returned.                                      *)
C15_Display ==
    last.op = "display"
    => \E mode \in {247, 255} :
         LET sent == IF last.hasImg THEN last.img ELSE prev
             expected ==
                 <<(<<"cmd", 36>>)>> \o AsData(sent)
                 \o <<(<<"cmd", 34>>), <<"data", mode>>, <<"cmd", 32>>,
                      <<"wait", 0>>>>
         IN  /\ IsPrefix(OnBus, expected)
             /\ result = "ok" => OnBus = expected
             /\ result \in {"ok", "pending"}

(* A display() of EPD without argument that has returned, made when the    *)
(* framebuffer was white but for the black pixel (0, 0) set before.        *)
C15_Witness ==
    /\ variant = "EPD" /\ last.op = "display" /\ ~last.hasImg
    /\ result = "ok" /\ pc = "idle"
    /\ ByteAt(prev, 0) = 127 /\ ByteAt(prev, 1) = 255
    /\ OnBus[2] = <<"data", 127>>

(* C16: clear() leaves the framebuffer all 0xFF, puts on the bus the       *)
(* command 0x24 followed by exactly width/8*height data bytes 0xFF, and    *)
(* then refreshes once; the refresh is the fast one (mode byte 0xFF)       *)
(* unless the caller asks for the full one.                                *)
C16_Clear ==
    last.op = "clear"
    => LET expected ==
               <<(<<"cmd", 36>>)>> \o AsData(Alloc(FrameLen, 255))
               \o <<(<<"cmd", 34>>),
                    <<"data", IF last.fast THEN 255 ELSE 247>>,
                    <<"cmd", 32>>, <<"wait", 0>>>>
       IN  /\ AllBytes(buffer, 255)
           /\ IsPrefix(OnBus, expected)
           /\ result = "ok" => OnBus = expected

(* C17: cleanup() is idempotent: when it has been called twice or more,    *)
(* the GPIO chip handle and the bus handle have each been released exactly *)
(* once, and cleanup has written to no handle after it was released.       *)
C17_CleanupIdempotent ==
    cleanups >= 2
    => /\ variant # "onoff" => released["chip"] = 1
       /\ released["spi"] = 1
       /\ ~stale

(* C18: one cleanup() of EPD writes the power line low and then releases   *)
(* the GPIO chip handle and the SPI handle: the write comes before the     *)
(* chip is closed, each handle is released once, and nothing is sent on    *)
(* the bus.                                                                *)
C18_Cleanup ==
    (last.op = "cleanup" /\ cleanups = 1 /\ variant # "onoff")
    => /\ Panel = <<(<<"power", 0>>), <<"close", "chip">>,
                    <<"close", "spi">>>>
       /\ released["chip"] = 1 /\ released["spi"] = 1
       /\ \A i \in 1 .. Len(trace) : trace[i][1] # "spi"
       /\ result = "ok"

(* The cleanup of an EPD that had been initialised. *)
C18_Witness ==
    /\ variant = "EPD" /\ last.op = "cleanup" /\ cleanups = 1
    /\ callSession = "Idle" /\ result = "ok"
    /\ Len(trace) = 3

(* C19: the buffer loadImageInBuffer returns has width/8*height bytes;     *)
(* its pixel (X, Y) is black exactly when (X - xOffset, Y - yOffset) lies  *)
(* in the targetWidth x targetHeight region and the thresholded pixel      *)
(* there is black; every pixel outside the region is white.                *)
C19_LoadImageInBuffer ==
    (last.op = "loadImageInBuffer" /\ result = "ok")
    => /\ Len(load.out) = FrameLen
       /\ \A i \in 0 .. Len(load.out) - 1 : ByteAt(load.out, i) \in 0 .. 255
       /\ \A X \in PanelXs, Y \in PanelYs :
            LET x == X - load.xOffset
                y == Y - load.yOffset
            IN  PixelColor(load.out, X, Y) = 1
                <=> /\ 0 <= x /\ x < load.targetWidth
                    /\ 0 <= y /\ y < load.targetHeight
                    /\ load.grid[y * load.targetWidth + x + 1] = 0

(* A checkerboard of 5 x 1 pixels, smaller than the panel: it is put at    *)
(* the offset (5, 0) and the rest of the buffer is white.                  *)
C19_Witness ==
    /\ last.op = "loadImageInBuffer" /\ result = "ok"
    /\ last.w = 5 /\ last.h = 1
    /\ load.targetWidth = 5 /\ load.xOffset = (WIDTH - 5) \div 2
    /\ load.grid = <<0, 255, 0, 255, 0>>
    /\ PixelColor(load.out, load.xOffset, load.yOffset) = 1
    /\ PixelColor(load.out, load.xOffset + 1, load.yOffset) = 0

(* C20: loadImageInBuffer never upscales: the scale factor is at most 1,   *)
(* the target width is at most the source width and the panel width, the   *)
(* target height at most the source height and the panel height, so every  *)
(* bit written at (x + xOffset, y + yOffset) lies in the panel and in the   *)
(* buffer.                                                                 *)
C20_NeverUpscales ==
    (last.op = "loadImageInBuffer" /\ load.bitmapWidth >= 1)
    => /\ load.scaleNum <= load.scaleDen
       /\ load.targetWidth <= load.bitmapWidth
       /\ load.targetWidth <= WIDTH
       /\ load.targetHeight <= load.bitmapHeight
       /\ load.targetHeight <= HEIGHT
       /\ result = "ok"
           => \A x \in 0 .. load.targetWidth - 1,
                 y \in 0 .. load.targetHeight - 1 :
                 /\ InPanel(x + load.xOffset, y + load.yOffset)
                 /\ PixelByte(x + load.xOffset, y + load.yOffset)
                        < Len(load.out)

(* An image wider than twice the panel and three pixels high: it is scaled *)
(* down to the width of the panel and one pixel of height.                 *)
C20_Witness ==
    /\ last.op = "loadImageInBuffer" /\ result = "ok"
    /\ load.bitmapWidth = MaxSrc /\ load.bitmapHeight = 3
    /\ load.scaleNum < load.scaleDen
    /\ load.targetWidth = WIDTH /\ load.targetHeight = 1

(* C21: the scaled image is centred: xOffset = floor((width -              *)
(* targetWidth)/2) and yOffset = floor((height - targetHeight)/2), both    *)
(* >= 0, and the margins on the two sides differ by at most one pixel.     *)
C21_Centred ==
    (last.op = "loadImageInBuffer" /\ result = "ok")
    => LET right == WIDTH - load.targetWidth - load.xOffset
           bottom == HEIGHT - load.targetHeight - load.yOffset
       IN  /\ load.xOffset = (WIDTH - load.targetWidth) \div 2
           /\ load.yOffset = (HEIGHT - load.targetHeight) \div 2
           /\ load.xOffset >= 0 /\ load.yOffset >= 0
           /\ right - load.xOffset \in {0 - 1, 0, 1}
           /\ bottom - load.yOffset \in {0 - 1, 0, 1}

(* An image of 5 x 1 pixels: the margin left of it is one pixel narrower   *)
(* than the margin right of it.                                            *)
C21_Witness ==
    /\ last.op = "loadImageInBuffer" /\ result = "ok"
    /\ load.targetWidth = 5 /\ load.targetHeight = 1
    /\ load.xOffset > 0
    /\ WIDTH - 5 - load.xOffset = load.xOffset + 1

C23_DecodeFailure ==
    last.op = "loadImageInBuffer"
    => /\ "epaper: Error:" \in Range(log)
           => /\ result = "Failed to load image"
              /\ pc = "idle"
              /\ load.out = <<>>
       /\ result = "ok" => load.bitmapWidth >= 1 /\ load.bitmapHeight >= 1

(* A file that neither decoder took. *)
C23_Witness ==
    /\ last.op = "loadImageInBuffer"
    /\ log = <<"epaper: Image is not in BMP format, converting using sharp...",
               "epaper: Error:">>
    /\ result = "Failed to load image"

(* C24: loadImageInBuffer leaves the framebuffer as it was and writes to   *)
(* no line and to the bus not at all, whether it succeeds or fails; a      *)
(* display() without argument made after it streams the framebuffer as it  *)
(* was before the load.                                                    *)
C24_NoSideEffect ==
    /\ [](last.op = "loadImageInBuffer" => buffer = prev /\ trace = <<>>)
    /\ [][(/\ last.op = "loadImageInBuffer"
           /\ last'.op = "display" /\ ~last'.hasImg)
          => IsPrefix(<<(<<"cmd", 36>>)>> \o AsData(prev),
                      SelectSeq(Seen(trace', 0 - 1), IsBusItem))]_vars

(* display() that has returned, called after a load of a black image into  *)
(* a driver whose framebuffer was white but for the first pixel.           *)
C24_Witness ==
    /\ last.op = "display" /\ result = "ok" /\ pc = "idle"
    /\ load.out # <<>> /\ ByteAt(load.out, 0) # 127
    /\ ByteAt(buffer, 0) = 127
    /\ OnBus[2] = <<"data", 127>>

(* The writes of a trace, and the writes the last call makes when no write *)
(* fails.                                                                  *)
IsWrite(e) == e[1] \in {"gpio", "spi"}

Writes(tr) == SelectSeq(tr, IsWrite)

AllWrites ==
    IF last.op = "init"
    THEN <<Gpio("rst", 1), Gpio("rst", 0), Gpio("rst", 1)>>
         \o sendCommand(variant, 18)
         \o (IF variant = "onoff"
             THEN Emit(variant, RegisterProgramOnoff \o CursorProgramOnoff)
             ELSE Emit(variant, RegisterProgram))
    ELSE IF last.op = "clear"
    THEN clearTransfer(variant, prev)
         \o Emit(variant, turnOnDisplay(variant, last.fast))
    ELSE IF last.op = "display"
    THEN displayTransfer(variant, IF last.hasImg THEN last.img ELSE prev)
         \o Emit(variant, turnOnDisplay(variant, TRUE))
    ELSE IF last.op = "sleep"
    THEN sendCommand(variant, 16) \o sendData(variant, 1)
    ELSE <<>>

(* The bytes of all bus writes of a trace, one after the other. *)
RECURSIVE BusBytes(_)
BusBytes(tr) ==
    IF tr = <<>> THEN <<>>
    ELSE (IF Head(tr)[1] = "spi" THEN Head(tr)[3] ELSE <<>>)
         \o BusBytes(Tail(tr))

C26_CommandDataSelect ==
    /\ \A i \in 1 .. Len(trace) :
          trace[i][1] = "spi"
          => \E j \in 1 .. (i - 1) :
                trace[j][1] = "gpio" /\ trace[j][2] = "dc"
    /\ last.op = "sendCommand"
       => /\ OnBus = <<(<<"cmd", last.x>>)>>
          /\ trace[1] = Gpio("dc", 0)
    /\ last.op = "sendData" /\ ~last.hasImg
       => /\ OnBus = <<(<<"data", last.x>>)>>
          /\ trace[1] = Gpio("dc", 1)
    /\ last.op \in {"sendData", "sendSPIBytes"} /\ last.hasImg
       => /\ \A i \in 1 .. Len(OnBus) : OnBus[i][1] = "data"
          /\ trace[1] = Gpio("dc", 1)

(* sendCommand(0x24) of the class with the chip-select line. *)
C26_Witness ==
    /\ variant = "onoff" /\ last.op = "sendCommand" /\ last.x = 36
    /\ Panel = <<(<<"cs", 0>>), (<<"cmd", 36>>), (<<"cs", 1>>)>>

(* C27: the bus writes of one sendData(buffer), one after the other, are   *)
(* the bytes of the buffer in their order.                                 *)
C27_SendDataExact ==
    (last.op = "sendData" /\ last.hasImg) => BusBytes(trace) = last.img

(* What clear and display stream after the command 0x24, the mode byte     *)
(* the call asks for, and what the call put on the bus after the streamed  *)
(* bytes.                                                                  *)
RefreshOps == {"clear", "display"}

SentBy(call, before) ==
    IF call.op = "clear" THEN clearBuffer(before)
    ELSE IF call.hasImg THEN call.img ELSE before

ModeAsked(call) == IF call.op = "clear" /\ ~call.fast THEN 247 ELSE 255

RefreshPart(call, before, tr) ==
    LET bus == SelectSeq(Seen(tr, 0 - 1), IsBusItem)
    IN  SubSeq(bus, Len(SentBy(call, before)) + 2, Len(bus))

(* The bus after the first command 0x24, and the number of data bytes at   *)
(* the head of a piece of the bus.                                         *)
RECURSIVE AfterWriteRam(_)
AfterWriteRam(bus) ==
    IF bus = <<>> THEN <<>>
    ELSE IF Head(bus) = <<"cmd", 36>> THEN Tail(bus)
    ELSE AfterWriteRam(Tail(bus))

RECURSIVE DataRun(_)
DataRun(bus) ==
    IF bus = <<>> \/ Head(bus)[1] # "data" THEN 0
    ELSE 1 + DataRun(Tail(bus))

(* C28: every refresh of EPD sends 0x22, one mode byte, 0x20 and then      *)
(* waits for the busy line; the mode byte is 0xF7 for clear(false) and     *)
(* 0xFF for clear(), clear(true) and display(); the mode byte of a call    *)
(* made after a clear or display is the one that call asks for, whatever   *)
(* the earlier call was given.                                             *)
C28_RefreshMode ==
    /\ [](variant = "EPD" /\ last.op \in RefreshOps
          => LET part == RefreshPart(last, prev, trace)
                 refresh == <<(<<"cmd", 34>>), <<"data", ModeAsked(last)>>,
                              <<"cmd", 32>>, <<"wait", 0>>>>
             IN  /\ Len(part) >= 3
                 /\ IsPrefix(part, refresh)
                 /\ result = "ok" => part = refresh)
    /\ [][(/\ variant = "EPD" /\ pc = "idle"
           /\ last.op \in RefreshOps /\ last'.op \in RefreshOps)
          => RefreshPart(last', prev', trace')[2]
                 = <<"data", ModeAsked(last')>>]_vars

(* clear(false) of EPD that has returned. *)
C28_Witness ==
    /\ variant = "EPD" /\ last.op = "clear" /\ ~last.fast
    /\ result = "ok" /\ pc = "idle"
    /\ RefreshPart(last, prev, trace)[2] = <<"data", 247>>

(* C29: the address bytes of init cover the whole panel: after 0x44 the    *)
(* low and high byte of 0 and of width - 1, after 0x45 the low and high    *)
(* byte of height - 1 and of 0, after 0x4E and 0x4F the origin; low + 256  *)
(* * high gives the value back for every width <= 1024 and every height    *)
(* <= 65536; 800 x 480 gives 00 00 1F 03 and DF 01 00 00.                  *)
C29_Address ==
    last.op = "initAddress"
    => LET b(i) == OnBus[i][2]
       IN  /\ Len(OnBus) = 16
           /\ \A i \in 1 .. 16 :
                 OnBus[i][1] = IF i \in {1, 6, 11, 14} THEN "cmd" ELSE "data"
           /\ <<b(1), b(6), b(11), b(14)>> = <<68, 69, 78, 79>>
           /\ \A i \in 1 .. 16 : b(i) \in 0 .. 255
           /\ b(2) + 256 * b(3) = 0
           /\ b(4) + 256 * b(5) = last.w - 1
           /\ b(7) + 256 * b(8) = last.h - 1
           /\ b(9) + 256 * b(10) = 0
           /\ b(12) + 256 * b(13) = 0
           /\ b(15) + 256 * b(16) = 0
           /\ (last.w = 800 /\ last.h = 480)
              => /\ <<b(2), b(3), b(4), b(5)>> = <<0, 0, 31, 3>>
                 /\ <<b(7), b(8), b(9), b(10)>> = <<223, 1, 0, 0>>

(* The widest and highest panel of the claim: 1024 x 65536. *)
C29_Witness ==
    /\ last.op = "initAddress" /\ last.w = 1024 /\ last.h = 65536
    /\ OnBus[4] = <<"data", 255>> /\ OnBus[5] = <<"data", 3>>
    /\ OnBus[7] = <<"data", 255>> /\ OnBus[8] = <<"data", 255>>

(* C30: the number of data bytes between the command 0x24 and the next     *)
(* command byte is width/8*height, also for display(buf) with a buffer of  *)
(* any length.                                                             *)
C30_FrameLength ==
    last.op \in RefreshOps
    => LET rest == AfterWriteRam(OnBus)
       IN  Len(rest) > DataRun(rest) => DataRun(rest) = FrameLen

(* C33: display(buf), display(), init() and sleep() leave the framebuffer  *)
(* as it was; the buffer given to display is not copied into it, so a      *)
(* display() without argument after a display(buf) streams the framebuffer *)
(* as it was before; the length of the framebuffer never changes.          *)
C33_FramebufferKept ==
    /\ [](/\ Len(buffer) = BufLen
          /\ last.op \in {"display", "init", "sleep"} => buffer = prev)
    /\ [][(/\ pc = "idle" /\ last.op = "display" /\ last.hasImg
           /\ last'.op = "display" /\ ~last'.hasImg)
          => IsPrefix(<<(<<"cmd", 36>>)>> \o AsData(prev),
                      SelectSeq(Seen(trace', 0 - 1), IsBusItem))]_vars

(* display(buf) that has returned, made after a clear(): the framebuffer   *)
(* is still white.                                                         *)
C33_Witness ==
    /\ last.op = "display" /\ last.hasImg /\ last.img = Ramp(BufLen)
    /\ result = "ok" /\ pc = "idle"
    /\ variant = "EPD"
    /\ buffer = Alloc(BufLen, 255)

(* The busy-waits the running call has begun: those that have returned,    *)
(* and the one that is polling or in its last delay.                       *)
IsWaitReturn(e) == e[1] = "wait"

WaitsBegun ==
    Len(SelectSeq(trace, IsWaitReturn))
    + (IF pc \in {"poll", "tail"} THEN 1 ELSE 0)

MaxWaits(op) ==
    IF op = "init" THEN 3 ELSE IF op \in {"clear", "display"} THEN 1 ELSE 0

(* C32: every call of init, clear, display and sleep returns in the end,   *)
(* whatever is read from the busy line; init of EPD makes at most three    *)
(* busy-waits, clear and display one, sleep none, and a busy-wait reads    *)
(* the line at most 1001 times.                                            *)
C32_Completes ==
    /\ (pc # "idle") ~> (pc = "idle" /\ result = "ok")
    /\ []((variant = "EPD"
           /\ last.op \in {"init", "clear", "display", "sleep"})
          => /\ WaitsBegun <= MaxWaits(last.op)
             /\ reads <= BusyCap + 1)

(* init of EPD that has returned after three busy-waits, the last of them  *)
(* ended by the cap.                                                       *)
C32_Witness ==
    /\ variant = "EPD" /\ last.op = "init"
    /\ result = "ok" /\ pc = "idle"
    /\ WaitsBegun = 3
    /\ waitEnd = "cap"

(* The command and parameter bytes of a trace, and those of init of EPD. *)
IsProtocolByte(e) == e[1] \in {"cmd", "data"}

InitBytes ==
    Seen(sendCommand("EPD", 18) \o Emit("EPD", RegisterProgram), 0 - 1)

(* C34: the three classes send the same command and parameter bytes in the *)
(* same order during init(), and all three take the same level of the busy *)
(* line as "busy": a first read of the high level keeps the wait polling,  *)
(* a first read of the low level does not.                                 *)
C34_OneProtocol ==
    /\ (pc = "poll" /\ reads = 1) => highReads = 1
    /\ (last.op = "init" /\ result = "ok")
       => SelectSeq(Panel, IsProtocolByte) = InitBytes

(* A run of writes is on the wire in one piece. *)
InOnePiece(block) ==
    \E s \in 1 .. (Len(wire) - Len(block) + 1) :
        SubSeq(wire, s, s + Len(block) - 1) = block

(* The writes of call i from the command 0x24 to the last byte of its      *)
(* buffer, and those of its refresh from 0x22 to 0x20.                     *)
WriteRamBlock(i) ==
    LET o == ops[i]
    IN  Tagged(i, IF o.call.op = "display"
                  THEN displayTransfer(variant, o.sent)
                  ELSE IF variant = "lgpio"
                  THEN sendCommand(variant, 36) \o sendSPIBytes(o.sent)
                  ELSE clearTransfer(variant, o.sent))

RefreshBlock(i) ==
    LET o == ops[i]
    IN  Tagged(i, Emit(variant,
                       turnOnDisplay(variant,
                                     o.call.op = "display" \/ o.call.fast)))

(* C31: when two calls overlap, no write of the other call comes between   *)
(* a call's command 0x24 and the last byte of its buffer, nor between its  *)
(* 0x22, the mode byte and 0x20.                                           *)
C31_NoInterleaving ==
    \A i \in Slots :
        ops[i].call.op \in {"clear", "display"}
        => InOnePiece(WriteRamBlock(i)) /\ InOnePiece(RefreshBlock(i))

(* display(buf) made while an init was waiting and returned before that    *)
(* init went on: its writes lie between writes of the init.                *)
C31_Witness ==
    /\ ops[1].call.op = "init" /\ ops[1].at = "done"
    /\ ops[2].call.op = "display" /\ ops[2].call.hasImg
    /\ ops[2].at = "done"
    /\ \E a, b, c \in 1 .. Len(wire) :
          /\ a < b /\ b < c
          /\ wire[a][1] = 1 /\ wire[b][1] = 2 /\ wire[c][1] = 1

====
